---- MODULE Spec2Model ----
(***************************************************************************)
(* SparkyFitnessGarmin/main.py: the MFA login/resume handlers with their   *)
(* in-memory challenge store, and the health-and-wellness aggregation      *)
(* handler.                                                                *)
(*                                                                         *)
(* All three handlers are `async def` coroutines served by one uvicorn     *)
(* event loop.  garmin_login contains no await; garmin_resume_login has    *)
(* one, `await request.json()`, before it touches the store;               *)
(* get_health_and_wellness has none.  The code between two awaits runs     *)
(* without interleaving, so each such stretch is one action here.          *)
(***************************************************************************)
EXTENDS Integers, Sequences, FiniteSets, TLC

(***************************************************************************)
(* Bounds of the model                                                     *)
(***************************************************************************)
\* number of distinct values uuid.uuid4().hex yields in one run
MaxHandles == 2
\* seconds of wall-clock time that pass in one Tick
ClockStep == 300
\* the clock stops advancing here
MaxClock == 600

\* MFA_TTL_SECONDS = 5 * 60
MFA_TTL_SECONDS == 5 * 60

\* values of uuid.uuid4().hex; 0 stands for an absent or empty request field
Handles == 1 .. MaxHandles
\* provider challenge states (result2 of garmin.login()), disjoint from
\* Handles; the provider issues a new one for every MFA-required login
ChallengeStates == { 10 + n : n \in 1 .. MaxHandles }
\* MFA codes a caller may send; 0 stands for an absent or empty field
Codes == {1, 2}
\* the code the provider accepts for a challenge state
ProviderCode(state) == (state % 2) + 1
\* resume requests that may be open at once
MaxInflight == 2
\* the longest date range of an aggregation request, in days
MaxDates == 2
\* the most upstream fetches the loop of one aggregation request makes
MaxFetches == 4
\* the most activities and the most workouts a listing holds, and the most
\* items both listings of one request hold together
MaxActivities == 2
MaxWorkouts == 2
MaxItems == 4
\* the most pieces of a plain text clean_garmin_data is called with, and the
\* most elements of a list and keys of a dict
MaxLen == 3
MaxWidth == 2
\* the most samples of a stress response and the most intraday events of a
\* sleep response
MaxSamples == 2
MaxEvents == 3

VARIABLES
    now,              \* time.time()
    MFA_STATE_STORE,  \* handle -> [state, ts]
    uuidUsed,         \* the values uuid.uuid4() has returned
    inflight,         \* client_state -> number of resume coroutines that
                      \* carry it and are suspended in `await request.json()`
    lastResp,         \* the HTTP response of the request that completed last
    lastReq,          \* what that request was and what it met in the store
    issued,           \* history: handle -> challenge state a login stored
    failed,           \* history: handles whose provider exchange failed
    lookups,          \* history: per handle, resumes that got past the lookup
    agg,              \* state of the aggregation request
    act,              \* state of the activities-and-workouts request
    cleaning,         \* a call of clean_garmin_data and a call on its result
    iteration         \* the sleep and stress blocks of one loop iteration,
                      \* with the upstream responses they work on

vars == <<now, MFA_STATE_STORE, uuidUsed, inflight, lastResp, lastReq,
          issued, failed, lookups, agg, act, cleaning, iteration>>

(***************************************************************************)
(* Exceptions and HTTP responses                                           *)
(***************************************************************************)
HTTPException(status_code, detail) ==
    [type |-> "HTTPException", status_code |-> status_code, detail |-> detail]

\* what the provider client raises: GarthHTTPError (a GarthException), a plain
\* GarthException, or anything else
ProviderErrors ==
    { [type |-> t, status_code |-> 0, detail |-> "provider"] :
        t \in {"GarthHTTPError", "GarthException", "Exception"} }

ErrorResponse(prefix, e) ==
    [status |-> "error", code |-> 500, prefix |-> prefix,
     inner |-> e.detail, inner_code |-> e.status_code,
     client_state |-> 0, tokens |-> FALSE]

\* the except chain of garmin_login
LoginErrorResponse(e) ==
    IF e.type = "GarthHTTPError" THEN ErrorResponse("Garmin login error", e)
    ELSE IF e.type = "GarthException"
         THEN ErrorResponse("Failed to login to Garmin", e)
    ELSE ErrorResponse("An unexpected error occurred", e)

\* the except chain of garmin_resume_login; an HTTPException raised inside the
\* try block is an Exception and lands in the last handler
ResumeErrorResponse(e) ==
    IF e.type = "GarthHTTPError" THEN ErrorResponse("Garmin MFA error", e)
    ELSE IF e.type = "GarthException"
         THEN ErrorResponse("Failed to complete Garmin MFA", e)
    ELSE ErrorResponse("An unexpected error occurred", e)

SuccessResponse ==
    [status |-> "success", code |-> 200, prefix |-> "", inner |-> "",
     inner_code |-> 0, client_state |-> 0, tokens |-> TRUE]

NeedsMfaResponse(mfa_id) ==
    [status |-> "needs_mfa", code |-> 200, prefix |-> "", inner |-> "",
     inner_code |-> 0, client_state |-> mfa_id, tokens |-> FALSE]

NoResponse ==
    [status |-> "none", code |-> 0, prefix |-> "", inner |-> "",
     inner_code |-> 0, client_state |-> 0, tokens |-> FALSE]

(***************************************************************************)
(* The challenge store                                                     *)
(***************************************************************************)
\* the sweep's test `now - v["ts"] > MFA_TTL_SECONDS`
ExpiredOffByOne(v, t) == t - v.ts >= MFA_TTL_SECONDS
ExpiredNever(v, t) == FALSE
Expired(v, t) == t - v.ts > MFA_TTL_SECONDS

_cleanup_everything(store, t) == <<>>
_cleanup_mfa_cache(store, t) ==
    LET to_delete == { token \in DOMAIN store : Expired(store[token], t) }
    IN  [ k \in DOMAIN store \ to_delete |-> store[k] ]

\* MFA_STATE_STORE[mfa_id] = {"state": result2, "ts": time.time()}
StorePut(store, mfa_id, state, t) ==
    [ k \in DOMAIN store \cup {mfa_id} |->
        IF k = mfa_id THEN [state |-> state, ts |-> t] ELSE store[k] ]

\* the store after MFA_STATE_STORE.pop(client_state, None)
StorePeek(store, client_state) == store
StorePop(store, client_state) ==
    [ k \in DOMAIN store \ {client_state} |-> store[k] ]

\* the state handed to garmin.resume_login: `client_state = item["state"]`
ExchangeStateFromRequest(item, client_state) == client_state
ExchangeState(item, client_state) == item.state

\* uuid.uuid4().hex: a value not returned before.  Handles are told apart
\* only by equality, so the least unused one stands for any of them; a resume
\* may still arrive with a handle before a login returns it.
uuid4(used) ==
    { h \in Handles \ used : \A g \in Handles \ used : h <= g }

(***************************************************************************)
(* Requests                                                                *)
(***************************************************************************)
\* the JSON body of a resume request
ResumeBody(client_state, mfa_code, user_id) ==
    [client_state |-> client_state, mfa_code |-> mfa_code, user_id |-> user_id]

\* `not client_state or not mfa_code or not user_id`
MissingField(data) ==
    data.client_state = 0 \/ data.mfa_code = 0 \/ data.user_id = 0

NoReq ==
    [op |-> "none", handle |-> 0, missing |-> FALSE,
     preInStore |-> FALSE, preConsumed |-> FALSE, preExpired |-> FALSE,
     preFailed |-> FALSE, codeOk |-> FALSE, overwrote |-> FALSE,
     exchanged |-> FALSE, usedState |-> 0]

\* a login: the handle it stored (0 if none) and whether that key was taken
LoginReq(mfa_id, store) ==
    [NoReq EXCEPT !.op = "login", !.handle = mfa_id,
                  !.overwrote = (mfa_id \in DOMAIN store)]

\* a resume: its body, what its handle met in the store, and the state it
\* handed to the provider (0 if it did not call the provider)
ResumeReq(t, data, store, known, done, bad, exchanged, usedState) ==
    [NoReq EXCEPT !.op = "resume", !.handle = data.client_state,
                  !.missing = MissingField(data),
                  !.preInStore = (data.client_state \in DOMAIN store),
                  !.preConsumed = (data.client_state \in done),
                  !.preFailed = (data.client_state \in bad),
                  !.preExpired = IF data.client_state \in DOMAIN store
                                 THEN t - store[data.client_state].ts
                                          > MFA_TTL_SECONDS
                                 ELSE FALSE,
                  !.codeOk = IF data.client_state \in DOMAIN known
                             THEN data.mfa_code
                                      = ProviderCode(known[data.client_state])
                             ELSE FALSE,
                  !.exchanged = exchanged, !.usedState = usedState]

(***************************************************************************)
(* JSON values, json.loads and json.dumps                                  *)
(***************************************************************************)
\* None
JNull == [t |-> "null"]
JNum(n) == [t |-> "num", n |-> n]
\* a str, as the sequence of its pieces: a double quote is "q", a backslash
\* "b", and a digit, a bracket, a brace, a colon, a comma, a minus sign and a
\* space are themselves; any other piece is a run of letters
JStr(s) == [t |-> "str", s |-> s]
JList(items) == [t |-> "list", items |-> items]
JDict(fields) == [t |-> "dict", fields |-> fields]
\* what json.loads raises when it rejects a text
JSONDecodeError == [t |-> "JSONDecodeError"]

DigitPieces == <<"0", "1", "2", "3", "4", "5", "6", "7", "8", "9">>
IsDigit(c) == c \in {"0", "1", "2", "3", "4", "5", "6", "7", "8", "9"}
DigitValue(c) ==
    CASE c = "0" -> 0 [] c = "1" -> 1 [] c = "2" -> 2 [] c = "3" -> 3
      [] c = "4" -> 4 [] c = "5" -> 5 [] c = "6" -> 6 [] c = "7" -> 7
      [] c = "8" -> 8 [] c = "9" -> 9

\* str(n) for n >= 0
RECURSIVE Digits(_)
Digits(n) ==
    IF n < 10 THEN <<DigitPieces[n + 1]>>
    ELSE Digits(n \div 10) \o <<DigitPieces[(n % 10) + 1]>>

\* int(text) for a run of digits
RECURSIVE DecimalPrefix(_, _)
DecimalPrefix(s, n) ==
    IF n = 0 THEN 0 ELSE 10 * DecimalPrefix(s, n - 1) + DigitValue(s[n])
DecimalValue(s) == DecimalPrefix(s, Len(s))

\* data.replace('""', '"'): every pair of adjacent double quotes, found from
\* the left without overlap, becomes one
RECURSIVE ReplaceDoubledQuotes(_)
ReplaceDoubledQuotes(s) ==
    IF \A i \in 1 .. Len(s) - 1 : s[i] # "q" \/ s[i + 1] # "q" THEN s
    ELSE IF s[1] = "q" /\ s[2] = "q"
         THEN <<"q">> \o ReplaceDoubledQuotes(SubSeq(s, 3, Len(s)))
         ELSE <<s[1]>> \o ReplaceDoubledQuotes(Tail(s))

\* the result of a parsing step: the value read and the position after it
Parsed(v, n) == [ok |-> TRUE, v |-> v, n |-> n]
Rejected == [ok |-> FALSE, v |-> JNull, n |-> 0]

\* the first position from i on that holds no whitespace
SkipSpace(s, i) ==
    CHOOSE j \in i .. Len(s) + 1 :
        /\ j = Len(s) + 1 \/ s[j] # " "
        /\ \A k \in i .. j - 1 : s[k] = " "

\* the pieces of a string as one dict key
RECURSIVE KeyOf(_)
KeyOf(s) == IF s = <<>> THEN "" ELSE s[1] \o KeyOf(Tail(s))

\* a JSON string from the position after its opening quote.  A backslash
\* escapes a quote, a backslash or a slash; before a digit, a bracket or a
\* letter that names no escape it makes the text invalid.
RECURSIVE ScanString(_, _, _)
ScanString(s, i, acc) ==
    IF i > Len(s) THEN Rejected
    ELSE IF s[i] = "q" THEN Parsed(JStr(acc), i + 1)
    ELSE IF s[i] = "b"
         THEN IF i + 1 <= Len(s) /\ s[i + 1] \in {"q", "b", "/"}
              THEN ScanString(s, i + 2, Append(acc, s[i + 1]))
              ELSE Rejected
    ELSE ScanString(s, i + 1, Append(acc, s[i]))

\* a JSON integer: an optional minus sign, then 0 or a run of digits that
\* does not start with 0
ScanNumber(s, i) ==
    LET first == IF s[i] = "-" THEN i + 1 ELSE i
        sign  == IF s[i] = "-" THEN -1 ELSE 1
    IN  IF first > Len(s) \/ ~IsDigit(s[first]) THEN Rejected
        ELSE IF s[first] = "0" THEN Parsed(JNum(0), first + 1)
        ELSE LET last == CHOOSE j \in first .. Len(s) :
                            /\ \A k \in first .. j : IsDigit(s[k])
                            /\ j = Len(s) \/ ~IsDigit(s[j + 1])
             IN  Parsed(JNum(sign * DecimalValue(SubSeq(s, first, last))),
                        last + 1)

RECURSIVE ScanValue(_, _)
RECURSIVE ScanItems(_, _, _)
RECURSIVE ScanMembers(_, _, _)

\* the elements of a JSON array from the i-th position on
ScanItems(s, i, acc) ==
    LET r == ScanValue(s, i)
        j == SkipSpace(s, r.n)
    IN  IF ~r.ok \/ j > Len(s) THEN Rejected
        ELSE IF s[j] = "]" THEN Parsed(JList(Append(acc, r.v)), j + 1)
        ELSE IF s[j] = ","
             THEN ScanItems(s, SkipSpace(s, j + 1), Append(acc, r.v))
        ELSE Rejected

\* the members of a JSON object from the i-th position on; of two members
\* with one key the later one stays
ScanMembers(s, i, acc) ==
    IF i > Len(s) \/ s[i] # "q" THEN Rejected
    ELSE LET k == ScanString(s, i + 1, <<>>)
             c == SkipSpace(s, k.n)
         IN  IF ~k.ok \/ c > Len(s) \/ s[c] # ":" THEN Rejected
             ELSE LET r == ScanValue(s, SkipSpace(s, c + 1))
                      j == SkipSpace(s, r.n)
                      key == KeyOf(k.v.s)
                      fields == [f \in DOMAIN acc \cup {key} |->
                                    IF f = key THEN r.v ELSE acc[f]]
                  IN  IF ~r.ok \/ j > Len(s) THEN Rejected
                      ELSE IF s[j] = "}" THEN Parsed(JDict(fields), j + 1)
                      ELSE IF s[j] = ","
                           THEN ScanMembers(s, SkipSpace(s, j + 1), fields)
                      ELSE Rejected

\* one JSON value from the i-th position on
ScanValue(s, i) ==
    IF i > Len(s) THEN Rejected
    ELSE CASE s[i] = "null" -> Parsed(JNull, i + 1)
           [] s[i] = "q" -> ScanString(s, i + 1, <<>>)
           [] s[i] = "-" \/ IsDigit(s[i]) -> ScanNumber(s, i)
           [] s[i] = "[" ->
                LET j == SkipSpace(s, i + 1)
                IN  IF j <= Len(s) /\ s[j] = "]" THEN Parsed(JList(<<>>), j + 1)
                    ELSE ScanItems(s, j, <<>>)
           [] s[i] = "{" ->
                LET j == SkipSpace(s, i + 1)
                IN  IF j <= Len(s) /\ s[j] = "}" THEN Parsed(JDict(<<>>), j + 1)
                    ELSE ScanMembers(s, j, <<>>)
           [] OTHER -> Rejected

\* json.loads(text): the value, or JSONDecodeError when the text is no JSON
\* document or is followed by more than whitespace
json_loads(s) ==
    LET r == ScanValue(s, SkipSpace(s, 1))
    IN  IF r.ok /\ SkipSpace(s, r.n) = Len(s) + 1 THEN r.v ELSE JSONDecodeError

\* the text of a str between the quotes json.dumps puts around it
RECURSIVE Escaped(_)
Escaped(s) ==
    IF s = <<>> THEN <<>>
    ELSE (IF s[1] \in {"q", "b"} THEN <<"b", s[1]>> ELSE <<s[1]>>)
           \o Escaped(Tail(s))

\* json.dumps(v) with the default separators ", " and ": "
RECURSIVE json_dumps(_)
RECURSIVE DumpItems(_)
RECURSIVE DumpMembers(_, _)
DumpItems(items) ==
    IF items = <<>> THEN <<>>
    ELSE json_dumps(items[1])
           \o (IF Len(items) = 1 THEN <<>> ELSE <<",", " ">>)
           \o DumpItems(Tail(items))

DumpMembers(fields, keys) ==
    IF keys = {} THEN <<>>
    ELSE LET k == CHOOSE k \in keys : TRUE
         IN  <<"q", k, "q", ":", " ">> \o json_dumps(fields[k])
               \o (IF keys = {k} THEN <<>> ELSE <<",", " ">>)
               \o DumpMembers(fields, keys \ {k})

json_dumps(v) ==
    CASE v.t = "null" -> <<"null">>
      [] v.t = "num" ->
           IF v.n < 0 THEN <<"-">> \o Digits(-v.n) ELSE Digits(v.n)
      [] v.t = "str" -> <<"q">> \o Escaped(v.s) \o <<"q">>
      [] v.t = "list" -> <<"[">> \o DumpItems(v.items) \o <<"]">>
      [] OTHER -> <<"{">> \o DumpMembers(v.fields, DOMAIN v.fields) \o <<"}">>

\* current_date.isoformat(), "YYYY-MM-DD", for day d of January 2024
JDate(d) ==
    JStr(<<"2", "0", "2", "4", "-", "0", "1", "-">>
           \o (IF d < 10 THEN <<"0">> ELSE <<>>) \o Digits(d))

\* Python truth value
Truthy(v) ==
    CASE v.t = "null" -> FALSE
      [] v.t = "num" -> v.n # 0
      [] v.t = "list" -> v.items # <<>>
      [] v.t = "dict" -> DOMAIN v.fields # {}
      [] v.t = "str" -> v.s # <<>>
      [] OTHER -> TRUE

\* dict.get(k)
Get(e, k) == IF k \in DOMAIN e.fields THEN e.fields[k] ELSE JNull

ExcludedKeys ==
    {"ownerId", "userProfilePk", "permissionId", "userRoles", "equipmentTypeId"}
\* keys with 'endConditionCompare' in them
EndConditionCompareKeys == {"endConditionCompare", "endConditionCompareValue"}

\* `v is not None`
IsTruthy(v) == Truthy(v)
IsNotNone(v) == v # JNull

\* `return [item for item in cleaned_list if item is not None]`
NonEmptyOrNone(cleaned_list) ==
    IF SelectSeq(cleaned_list, IsNotNone) = <<>> THEN JNull
    ELSE JList(SelectSeq(cleaned_list, IsNotNone))
WithoutNone(cleaned_list) == JList(SelectSeq(cleaned_list, IsNotNone))

RECURSIVE clean_garmin_data(_)
\* `return clean_garmin_data(parsed_json)`
ParsedAsIs(parsed_json) == parsed_json
ParsedAndCleaned(parsed_json) == clean_garmin_data(parsed_json)

clean_garmin_data(data) ==
    CASE data.t = "dict" ->
           LET passed == { k \in DOMAIN data.fields :
                             /\ IsNotNone(data.fields[k])
                             /\ k \notin ExcludedKeys
                             /\ k \notin EndConditionCompareKeys }
               cleaned_value == [k \in passed |->
                                    clean_garmin_data(data.fields[k])]
               cleaned_dict == { k \in passed : IsNotNone(cleaned_value[k]) }
           IN  IF cleaned_dict = {} THEN JNull
               ELSE JDict([k \in cleaned_dict |-> cleaned_value[k]])
      [] data.t = "list" ->
           LET cleaned_list == [i \in 1 .. Len(data.items) |->
                                   clean_garmin_data(data.items[i])]
           IN  WithoutNone(cleaned_list)
      [] data.t = "str" ->
           LET parsed_json == json_loads(ReplaceDoubledQuotes(data.s))
           IN  IF parsed_json.t = "JSONDecodeError" THEN data
               ELSE ParsedAndCleaned(parsed_json)
      [] OTHER -> data

\* `{k: v for k, v in cleaned_health_data.items() if v}`
KeepAllKeys(cleaned) == cleaned
FinalFilter(cleaned) ==
    JDict([k \in { c \in DOMAIN cleaned.fields : Truthy(cleaned.fields[c]) }
              |-> cleaned.fields[k]])

(***************************************************************************)
(* Metric categories and the per-day blocks of get_health_and_wellness     *)
(***************************************************************************)
ALL_HEALTH_METRICS ==
    {"steps", "total_distance", "highly_active_seconds", "active_seconds",
     "sedentary_seconds", "heart_rates", "sleep", "stress", "respiration",
     "spo2", "intensity_minutes", "training_readiness", "training_status",
     "max_metrics", "hrv", "lactate_threshold", "endurance_score",
     "hill_score", "race_predictions", "blood_pressure", "body_battery",
     "menstrual_data", "floors", "fitness_age", "body_composition",
     "hydration", "recovery_time", "training_load", "acute_load"}

\* `request_data.metric_types if request_data.metric_types else ALL_HEALTH_METRICS`
MetricTypesToFetch(metric_types) ==
    IF metric_types = {} THEN ALL_HEALTH_METRICS ELSE metric_types

\* the metrics served from one get_user_summary response, in processing order
SummaryMetrics ==
    <<"steps", "total_distance", "highly_active_seconds", "active_seconds",
      "sedentary_seconds", "body_battery">>
\* those that go through safe_convert(value, conversion_func)
ConvertedMetrics ==
    {"total_distance", "highly_active_seconds", "active_seconds",
     "sedentary_seconds"}

\* the try blocks of one loop iteration, in source order
Blocks ==
    <<"daily_summary", "hydration", "floors", "fitness_age", "heart_rates",
      "sleep", "stress", "respiration", "spo2", "intensity_minutes",
      "training_readiness", "training_status", "max_metrics", "hrv",
      "endurance_score", "hill_score", "blood_pressure",
      "body_battery_fallback", "menstrual_data", "menstrual_calendar_data",
      "body_composition", "recovery_time", "training_load_acute_load">>

\* the metric names in the `if` that guards a block
BlockMetrics(b) ==
    CASE b = "daily_summary" ->
           { SummaryMetrics[i] : i \in 1 .. Len(SummaryMetrics) }
      [] b = "body_battery_fallback" -> {"body_battery"}
      [] b = "training_load_acute_load" -> {"training_load", "acute_load"}
      [] OTHER -> {b}

\* the fetches made once per request, before the loop
OnceBlocks == <<"lactate_threshold", "race_predictions", "pregnancy_summary">>

\* the upstream calls one iteration can make for the requested metrics: one
\* per guarded block, the GraphQL query of max_metrics, and the
\* get_training_readiness call of acute_load
Fetches(mt) ==
    { Blocks[i] : i \in { j \in 1 .. Len(Blocks) :
                            BlockMetrics(Blocks[j]) \cap mt # {} } }
      \cup (IF "max_metrics" \in mt THEN {"vo2max_graphql"} ELSE {})
      \cup (IF "acute_load" \in mt THEN {"acute_load_readiness"} ELSE {})

\* what an upstream call can do: raise; return None; return a response whose
\* fields are all None; return usable data; return data of a shape the
\* processing raises on
AllKinds == {"raise", "none", "nulls", "data", "bad"}
\* for get_user_summary the malformed response is named by the metric whose
\* field is not a number; for get_body_composition "blank" is a weigh-in
\* without a date or any measurement
Kinds(f, mt) ==
    CASE f = "daily_summary" ->
           {"raise", "none", "nulls", "data"} \cup (ConvertedMetrics \cap mt)
      [] f = "body_composition" -> AllKinds \cup {"blank"}
      [] f \in {"vo2max_graphql", "acute_load_readiness"} ->
           {"raise", "none", "data"}
      [] OTHER -> AllKinds

(***************************************************************************)
(* Entries                                                                 *)
(***************************************************************************)
\* a value read from a response
Reading == JNum(7)
\* averageSpO2Value of a dailySleepDTO
SleepSpO2 == JNum(95)
\* f"{systolic}/{diastolic}", which json.loads rejects
BloodPressureText == JStr(<<"1", "2", "0", "/", "8", "0">>)

\* the key an entry of category c stores its main value under
ValueKey(c) ==
    CASE c = "hydration" -> "hydration"
      [] c = "floors" -> "floors_ascended"
      [] c = "fitness_age" -> "fitness_age"
      [] c = "heart_rates" -> "HeartRate"
      [] c = "stress" -> "stressLevel"
      [] c = "respiration" -> "average_respiration_rate"
      [] c = "spo2" -> "average_spo2"
      [] c = "intensity_minutes" -> "total_intensity_minutes"
      [] c = "training_readiness" -> "training_readiness_score"
      [] c = "training_status" -> "training_status"
      [] c = "max_metrics" -> "vo2_max"
      [] c = "hrv" -> "hrvValue"
      [] c = "endurance_score" -> "endurance_score"
      [] c = "hill_score" -> "hill_score"
      [] c = "menstrual_data" -> "data"
      [] c = "training_load" -> "weekly_training_load"
      [] c = "lactate_threshold" -> "lactate_threshold_hr"
      [] c = "race_predictions" -> "race_prediction_5k"
      [] OTHER -> "value"

\* {"date": current_date, <key>: v}
Entry(c, d, v) ==
    JDict([k \in {"date", ValueKey(c)} |-> IF k = "date" THEN JDate(d) ELSE v])

\* heart_rates and hrv store a list of samples, empty when there are none
DataValue(c) ==
    IF c \in {"heart_rates", "hrv"} THEN JList(<<Reading>>) ELSE Reading
NullsValue(c) ==
    IF c \in {"heart_rates", "hrv"} THEN JList(<<>>) ELSE JNull

\* the sleep entry, with the fields another block reads
SleepEntry(d) ==
    JDict([entry_date |-> JDate(d), duration_in_seconds |-> Reading,
           average_spo2_value |-> SleepSpO2])

\* a body_battery entry; the fallback source has no value at wake time
BodyBatteryEntry(d, at_wake) ==
    JDict([date |-> JDate(d), body_battery_highest |-> Reading,
           body_battery_at_wake |-> at_wake])

\* a body_composition entry carries the date of the weigh-in itself
BodyCompositionEntry(date, weight) ==
    JDict([date |-> date, weight |-> weight, bmi |-> weight])

\* health_data[c].append(e)
EmitTwice(hd, c, e) == [hd EXCEPT ![c] = Append(Append(@, e), e)]
Emit(hd, c, e) == [hd EXCEPT ![c] = Append(@, e)]

\* what a try block leaves behind: health_data, and the categories whose
\* fetch or processing raised into its except clause
Done(hd) == [hd |-> hd, threw |-> {}]
Raised(hd, cs) == [hd |-> hd, threw |-> cs]

(***************************************************************************)
(* The try blocks                                                          *)
(***************************************************************************)
\* lines 316-345 from the i-th summary metric on.  o names the response; a
\* conversion of a field that is not a number raises out of the block and
\* the metrics after it are not reached.
RECURSIVE SummaryFrom(_, _, _, _, _)
SummaryFrom(i, hd, d, mt, o) ==
    IF i > Len(SummaryMetrics) THEN Done(hd)
    ELSE LET c == SummaryMetrics[i] IN
         IF c \notin mt THEN SummaryFrom(i + 1, hd, d, mt, o)
         ELSE IF c = o THEN Raised(hd, {c})
         ELSE IF c = "body_battery"
              THEN IF o = "nulls" THEN SummaryFrom(i + 1, hd, d, mt, o)
                   ELSE SummaryFrom(i + 1,
                            Emit(hd, c, BodyBatteryEntry(d, Reading)),
                            d, mt, o)
         ELSE SummaryFrom(i + 1,
                  Emit(hd, c, Entry(c, d, IF o = "nulls" THEN JNull
                                          ELSE Reading)),
                  d, mt, o)

\* the daily summary block, lines 311-347
DailySummary(hd, d, mt, o) ==
    CASE o = "raise" -> Raised(hd, BlockMetrics("daily_summary") \cap mt)
      [] o = "none" -> Done(hd)
      [] OTHER -> SummaryFrom(1, hd, d, mt, o)

\* single-entry blocks that append although every field read is None
AppendsOnNulls ==
    {"fitness_age", "intensity_minutes", "training_status", "endurance_score",
     "hill_score", "menstrual_data", "heart_rates", "hrv"}
\* blocks that call .get on the response without testing it
ThrowsOnNone == {"heart_rates", "stress"}

\* a block that makes at most one entry from one response
SingleEntry(c, hd, d, o) ==
    CASE o \in {"raise", "bad"} -> Raised(hd, {c})
      [] o = "none" ->
           IF c \in ThrowsOnNone THEN Raised(hd, {c})
           ELSE IF c = "hrv" THEN Done(Emit(hd, c, Entry(c, d, NullsValue(c))))
           ELSE Done(hd)
      [] o = "nulls" ->
           IF c \in AppendsOnNulls
           THEN Done(Emit(hd, c, Entry(c, d, NullsValue(c))))
           ELSE Done(hd)
      [] OTHER -> Done(Emit(hd, c, IF c = "sleep" THEN SleepEntry(d)
                                   ELSE Entry(c, d, DataValue(c))))

\* lines 632-638: the average_spo2_value of the sleep entry of this date
SleepFallback(hd, d) ==
    LET found == SelectSeq(hd["sleep"], LAMBDA e :
                     /\ Get(e, "entry_date") = JDate(d)
                     /\ Truthy(Get(e, "average_spo2_value")))
    IN  IF found = <<>> THEN JNull ELSE Get(found[1], "average_spo2_value")

\* the SpO2 block, lines 605-643
SpO2(hd, d, o) ==
    CASE o \in {"raise", "bad"} -> Raised(hd, {"spo2"})
      [] o = "data" -> Done(Emit(hd, "spo2", Entry("spo2", d, Reading)))
      [] OTHER ->
           LET avg_spo2 == SleepFallback(hd, d)
           IN  IF Truthy(avg_spo2)
               THEN Done(Emit(hd, "spo2", Entry("spo2", d, avg_spo2)))
               ELSE Done(hd)

\* the max metrics block, lines 683-717; g is the GraphQL query's outcome,
\* whose exception is caught inside the block
MaxMetrics(hd, d, o, g) ==
    CASE o \in {"raise", "bad"} -> Raised(hd, {"max_metrics"})
      [] o = "data" ->
           Done(Emit(hd, "max_metrics", Entry("max_metrics", d, Reading)))
      [] OTHER ->
           IF g = "data"
           THEN Done(Emit(hd, "max_metrics", Entry("max_metrics", d, Reading)))
           ELSE Done(hd)

\* a block that appends inside a loop over the items of the response, lines
\* 783-796, 815-831 and 859-870: a malformed item raises after the items
\* before it were appended
PerItem(c, hd, e, o) ==
    CASE o = "raise" -> Raised(hd, {c})
      [] o = "data" -> Done(Emit(hd, c, e))
      [] o = "bad" -> Raised(Emit(hd, c, e), {c})
      [] OTHER -> Done(hd)

\* `any(bb.get("date") == current_date for bb in health_data.get("body_battery", []))`
has_bb_never(hd, d) == FALSE
has_bb_for_date(hd, d) ==
    \E i \in 1 .. Len(hd["body_battery"]) :
        Get(hd["body_battery"][i], "date") = JDate(d)

\* whether the try of block b is entered: the fallback fetch is made only
\* for a date without a body_battery entry, line 810
Entered(b, hd, d) == b = "body_battery_fallback" => ~has_bb_for_date(hd, d)

\* the body battery fallback, lines 807-833
BodyBatteryFallback(hd, d, o) ==
    IF has_bb_for_date(hd, d) THEN Done(hd)
    ELSE PerItem("body_battery", hd, BodyBatteryEntry(d, JNull), o)

\* the body composition block, lines 854-872
BodyComposition(hd, d, o) ==
    IF o = "blank"
    THEN Done(Emit(hd, "body_composition", BodyCompositionEntry(JNull, JNull)))
    ELSE PerItem("body_composition", hd,
                 BodyCompositionEntry(JDate(d), Reading), o)

\* health_data has no such key: the append raises KeyError, lines 303, 849
UnknownKey(c, o) == o \in {"raise", "nulls", "data", "bad"}

\* training load and acute load, lines 886-912; o is get_training_status,
\* r the get_training_readiness call made for acute_load
TrainingLoadAcuteLoad(hd, d, mt, o, r) ==
    LET both == {"training_load", "acute_load"} \cap mt
        hd1  == IF "training_load" \in mt /\ o = "data"
                THEN Emit(hd, "training_load",
                          Entry("training_load", d, Reading))
                ELSE hd
    IN  CASE o \in {"raise", "bad"} -> Raised(hd, both)
          [] o = "none" -> Done(hd)
          [] OTHER ->
               IF "acute_load" \notin mt THEN Done(hd1)
               ELSE CASE r = "raise" -> Raised(hd1, {"acute_load"})
                      [] r = "data" ->
                           Done(Emit(hd1, "acute_load",
                                     Entry("acute_load", d, Reading)))
                      [] OTHER -> Done(hd1)

\* one try block of the loop body for date d; out gives the outcome of every
\* upstream call the iteration can make
RunBlock(b, hd, d, mt, out) ==
    CASE b = "daily_summary" -> DailySummary(hd, d, mt, out[b])
      [] b = "spo2" -> SpO2(hd, d, out[b])
      [] b = "max_metrics" -> MaxMetrics(hd, d, out[b], out["vo2max_graphql"])
      [] b = "blood_pressure" ->
           PerItem(b, hd, Entry(b, d, BloodPressureText), out[b])
      [] b = "body_battery_fallback" -> BodyBatteryFallback(hd, d, out[b])
      [] b = "menstrual_calendar_data" ->
           IF UnknownKey(b, out[b]) THEN Raised(hd, {b}) ELSE Done(hd)
      [] b = "body_composition" -> BodyComposition(hd, d, out[b])
      [] b = "training_load_acute_load" ->
           TrainingLoadAcuteLoad(hd, d, mt, out[b],
               IF "acute_load" \in mt THEN out["acute_load_readiness"]
               ELSE "none")
      [] OTHER -> SingleEntry(b, hd, d, out[b])

\* what the handler has done so far: health_data, the (block, category,
\* date) triples that raised, and the (block, date) pairs in the order in
\* which their try blocks were entered
Acc(hd, threw, calls) == [hd |-> hd, threw |-> threw, calls |-> calls]

\* the loop body for date d from the i-th block on, lines 307-912
RECURSIVE RunBlocks(_, _, _, _, _)
RunBlocks(i, acc, d, mt, out) ==
    IF i > Len(Blocks) THEN acc
    ELSE IF BlockMetrics(Blocks[i]) \cap mt = {}
         THEN RunBlocks(i + 1, acc, d, mt, out)
         ELSE LET r == RunBlock(Blocks[i], acc.hd, d, mt, out)
              IN  RunBlocks(i + 1,
                      Acc(r.hd,
                          acc.threw \cup { <<Blocks[i], c, d>> : c \in r.threw },
                          IF Entered(Blocks[i], acc.hd, d)
                          THEN Append(acc.calls, <<Blocks[i], d>>)
                          ELSE acc.calls),
                      d, mt, out)

\* one of the try blocks before the loop, lines 267-305; its entry carries
\* start_date
OnceBlockRepeated(b, hd, start_date, out) ==
    SingleEntry(b, SingleEntry(b, hd, start_date, out[b]).hd, start_date, out[b])
OnceBlock(b, hd, start_date, out) ==
    CASE b = "pregnancy_summary" ->
           IF UnknownKey(b, out[b]) THEN Raised(hd, {b}) ELSE Done(hd)
      [] b = "race_predictions" /\ out[b] = "nulls" -> Done(hd)
      [] b = "lactate_threshold" /\ out[b] = "nulls" ->
           Done(Emit(hd, b, Entry(b, start_date, JNull)))
      [] OTHER -> SingleEntry(b, hd, start_date, out[b])

\* the fetches before the loop, lines 267-305, from the i-th on
RECURSIVE RunOnce(_, _, _, _, _)
RunOnce(i, acc, start_date, mt, out) ==
    IF i > Len(OnceBlocks) THEN acc
    ELSE LET b == OnceBlocks[i] IN
         IF b \notin mt THEN RunOnce(i + 1, acc, start_date, mt, out)
         ELSE LET r == OnceBlock(b, acc.hd, start_date, out)
              IN  RunOnce(i + 1,
                      Acc(r.hd,
                          acc.threw \cup { <<b, c, start_date>> : c \in r.threw },
                          Append(acc.calls, <<b, start_date>>)),
                      start_date, mt, out)

(***************************************************************************)
(* Initial state                                                           *)
(***************************************************************************)
\* no aggregation response yet
NoAggResponse == [status |-> "none", code |-> 0, detail |-> "", data |-> JNull]

\* the aggregation handler between requests
AggInit ==
    [phase |-> "idle", metric_types |-> {}, start_date |-> 0, end_date |-> 0,
     dates_to_fetch |-> <<>>, visited |-> 0, visits |-> <<>>,
     health_data |-> <<>>,
     once |-> <<>>, upstream |-> <<>>, threw |-> {}, calls |-> <<>>,
     hard |-> FALSE,
     response |-> NoAggResponse]

\* no activities-and-workouts response yet
NoActResponse ==
    [status |-> "none", code |-> 0, detail |-> "", activities |-> JNull,
     workouts |-> JNull]

\* the activities-and-workouts handler between requests
ActInit ==
    [phase |-> "idle", activities |-> <<>>, detailed_activities |-> <<>>,
     enrichment |-> <<>>, workouts |-> <<>>, detailed_workouts |-> <<>>,
     definitions |-> <<>>, hard |-> FALSE, response |-> NoActResponse]

\* clean_garmin_data has not been called on its own
NoCleaning == [calls |-> 0, data |-> JNull, once |-> JNull, twice |-> JNull]

\* no loop iteration is looked at on its own
NoIteration ==
    [phase |-> "idle", current_date |-> 0, sleep_data_raw |-> JNull,
     stress_response |-> JNull, health_data |-> <<>>, threw |-> {}]

Handlers ==
    /\ now = 0
    /\ MFA_STATE_STORE = <<>>
    /\ uuidUsed = {}
    /\ inflight = [h \in Handles \cup {0} |-> 0]
    /\ lastResp = NoResponse
    /\ lastReq = NoReq
    /\ issued = <<>>
    /\ failed = {}
    /\ lookups = [h \in Handles |-> 0]
    /\ agg = AggInit
    /\ act = ActInit

Init == Handlers /\ cleaning = NoCleaning /\ iteration = NoIteration

\* handles some resume has popped
Consumed == { h \in Handles : lookups[h] > 0 }

(***************************************************************************)
(* Actions of the authentication handlers                                  *)
(***************************************************************************)
Tick ==
    /\ now + ClockStep <= MaxClock
    /\ now' = now + ClockStep
    /\ UNCHANGED <<MFA_STATE_STORE, uuidUsed, inflight, lastResp, lastReq,
                   issued, failed, lookups, agg, act,
                   cleaning, iteration>>

\* garmin.login() returned ("needs_mfa", result2)
LoginNeedsMfa ==
    \E mfa_id \in uuid4(uuidUsed) :
      LET result2 == 11 + Cardinality(uuidUsed)
      IN
        /\ uuidUsed' = uuidUsed \cup {mfa_id}
        /\ MFA_STATE_STORE' =
              _cleanup_mfa_cache(
                  StorePut(MFA_STATE_STORE, mfa_id, result2, now), now)
        /\ issued' = [ k \in DOMAIN issued \cup {mfa_id} |->
                          IF k = mfa_id THEN result2 ELSE issued[k] ]
        /\ lastResp' = NeedsMfaResponse(mfa_id)
        /\ lastReq' = LoginReq(mfa_id, MFA_STATE_STORE)
        /\ UNCHANGED <<now, inflight, failed, lookups, agg, act,
                   cleaning, iteration>>

\* a login that sweeps although no challenge was stored
LoginSuccessSweeping ==
    /\ MFA_STATE_STORE' = _cleanup_mfa_cache(MFA_STATE_STORE, now)
    /\ lastResp' = SuccessResponse
    /\ lastReq' = LoginReq(0, MFA_STATE_STORE)
    /\ UNCHANGED <<now, uuidUsed, inflight, issued, failed, lookups, agg, act,
                   cleaning, iteration>>

\* garmin.login() returned without an MFA requirement
LoginSuccess ==
    /\ lastResp' = SuccessResponse
    /\ lastReq' = LoginReq(0, MFA_STATE_STORE)
    /\ UNCHANGED <<now, MFA_STATE_STORE, uuidUsed, inflight, issued, failed,
                   lookups, agg, act,
                   cleaning, iteration>>

\* garmin.login() raised
LoginFails ==
    \E e \in ProviderErrors :
        /\ lastResp' = LoginErrorResponse(e)
        /\ lastReq' = LoginReq(0, MFA_STATE_STORE)
        /\ UNCHANGED <<now, MFA_STATE_STORE, uuidUsed, inflight, issued,
                       failed, lookups, agg, act,
                   cleaning, iteration>>

garmin_login == LoginNeedsMfa \/ LoginSuccess \/ LoginFails

\* number of open resume requests
Open(bag) == LET Sum[n \in 0 .. MaxHandles] ==
                     IF n = 0 THEN bag[0] ELSE bag[n] + Sum[n - 1]
             IN  Sum[MaxHandles]

\* a resume request arrives and its coroutine suspends in `await request.json()`
ResumeArrive ==
    /\ Open(inflight) < MaxInflight
    /\ \E client_state \in Handles \cup {0} :
           inflight' = [inflight EXCEPT ![client_state] = @ + 1]
    /\ UNCHANGED <<now, MFA_STATE_STORE, uuidUsed, lastResp, lastReq, issued,
                   failed, lookups, agg, act,
                   cleaning, iteration>>

\* a required field is missing: HTTPException(400) raised inside the try block
ResumeMissing(data) ==
    /\ MissingField(data)
    /\ lastResp' = ResumeErrorResponse(
           HTTPException(400, "Missing client_state, mfa_code, or user_id."))
    /\ lastReq' = ResumeReq(now, data, MFA_STATE_STORE, issued, Consumed,
                            failed, FALSE, 0)
    /\ UNCHANGED <<MFA_STATE_STORE, failed, lookups>>

\* pop() found nothing: HTTPException(400) raised inside the try block
ResumeNoItem(data) ==
    /\ ~MissingField(data)
    /\ data.client_state \notin DOMAIN MFA_STATE_STORE
    /\ MFA_STATE_STORE' = StorePop(MFA_STATE_STORE, data.client_state)
    /\ lastResp' = ResumeErrorResponse(
           HTTPException(400, "Invalid or expired mfa_token"))
    /\ lastReq' = ResumeReq(now, data, MFA_STATE_STORE, issued, Consumed,
                            failed, FALSE, 0)
    /\ UNCHANGED <<failed, lookups>>

\* pop() returned the item; garmin.resume_login(item["state"], mfa_code) runs
\* and returns iff the provider accepts the code for that state
ResumeExchange(data) ==
    /\ ~MissingField(data)
    /\ data.client_state \in DOMAIN MFA_STATE_STORE
    /\ LET h == data.client_state
           item == MFA_STATE_STORE[h]
           client_state == ExchangeState(item, h)
       IN  /\ MFA_STATE_STORE' = StorePop(MFA_STATE_STORE, h)
           /\ lookups' = [lookups EXCEPT ![h] = @ + 1]
           /\ lastReq' = ResumeReq(now, data, MFA_STATE_STORE, issued,
                                   Consumed, failed, TRUE, client_state)
           /\ \/ /\ client_state \in ChallengeStates
                 /\ data.mfa_code = ProviderCode(client_state)
                 /\ lastResp' = SuccessResponse
                 /\ UNCHANGED failed
              \/ /\ \E e \in ProviderErrors :
                        lastResp' = ResumeErrorResponse(e)
                 /\ failed' = failed \cup {h}

\* a suspended coroutine resumes with the parsed body and runs to its response
garmin_resume_login ==
    \E client_state \in Handles \cup {0}, mfa_code \in Codes \cup {0},
       user_id \in {0, 1} :
        /\ inflight[client_state] > 0
        /\ LET data == ResumeBody(client_state, mfa_code, user_id)
           IN  \/ ResumeMissing(data)
               \/ ResumeNoItem(data)
               \/ ResumeExchange(data)
        /\ inflight' = [inflight EXCEPT ![client_state] = @ - 1]
        /\ UNCHANGED <<now, uuidUsed, issued, agg, act,
                   cleaning, iteration>>

NextAuth ==
    \/ Tick
    \/ garmin_login
    \/ ResumeArrive
    \/ garmin_resume_login

SpecAuth == Init /\ [][NextAuth]_vars

(***************************************************************************)
(* Actions of get_health_and_wellness                                      *)
(***************************************************************************)
\* the metric_types lists requests are drawn from: metrics that share a
\* block or read each other's entries together, and every other metric alone
RequestedSets ==
    { {"steps", "total_distance", "active_seconds"},
      {"total_distance", "body_battery"},
      {"sleep", "spo2"},
      {"training_load", "acute_load"},
      {"hydration", "blood_pressure"},
      {"steps", "body_composition"},
      {"lactate_threshold", "race_predictions", "floors"},
      {"race_predictions", "pregnancy_summary"},
      {"menstrual_data", "menstrual_calendar_data"},
      {"steps"}, {"heart_rates"}, {"hrv"}, {"max_metrics"}, {"stress"},
      {"highly_active_seconds"}, {"sedentary_seconds"}, {"fitness_age"},
      {"respiration"}, {"intensity_minutes"}, {"training_readiness"},
      {"training_status"}, {"endurance_score"}, {"hill_score"},
      {"recovery_time"} }

\* every choice of an outcome for each call in fs
Outcomes(fs, mt) ==
    { out \in [fs -> AllKinds \cup ConvertedMetrics \cup {"blank"}] :
        \A f \in fs : out[f] \in Kinds(f, mt) }

\* lines 75-84: `while current_date <= end_date` appends current_date and
\* moves one day on
get_dates_in_range_exclusive(start_date, end_date) ==
    [i \in 1 .. (end_date - start_date) |-> start_date + i - 1]
get_dates_in_range(start_date, end_date) ==
    [i \in 1 .. (end_date - start_date + 1) |-> start_date + i - 1]

\* the except chain of get_health_and_wellness, lines 937-945
AggErrorResponse(e) ==
    [status |-> "error", code |-> 500,
     detail |-> IF e.type = "GarthHTTPError" THEN "Garmin API error"
                ELSE IF e.type = "GarthException"
                     THEN "Failed to retrieve health and wellness data"
                ELSE "An unexpected error occurred",
     data |-> JNull]

\* `return {"user_id": ..., "start_date": ..., "end_date": ..., "data": ...}`
AggSuccessResponse(final_health_data) ==
    [status |-> "success", code |-> 200, detail |-> "",
     data |-> final_health_data]

\* health_data as the dict of lists handed to clean_garmin_data
ToJson(hd) == JDict([c \in DOMAIN hd |-> JList(hd[c])])

\* a data handler that sweeps the challenge store
AuthUnchangedSweeping ==
    /\ MFA_STATE_STORE' = _cleanup_mfa_cache(MFA_STATE_STORE, now)
    /\ UNCHANGED <<now, uuidUsed, inflight, lastResp, lastReq,
                   issued, failed, lookups, cleaning, iteration>>

\* the data handlers never name MFA_STATE_STORE or the clock
AuthUnchanged ==
    UNCHANGED <<now, MFA_STATE_STORE, uuidUsed, inflight, lastResp, lastReq,
                issued, failed, lookups, cleaning, iteration>>

\* lines 252-264 fail: a required field is empty (the HTTPException is raised
\* inside the try block), garmin.login rejects the tokens, or a date is not
\* an ISO date
AggReject ==
    /\ agg.phase = "idle"
    /\ \E e \in ProviderErrors \cup {HTTPException(400, "Missing field")} :
          agg' = [AggInit EXCEPT !.phase = "done", !.hard = TRUE,
                                 !.response = AggErrorResponse(e)]
    /\ AuthUnchanged
    /\ UNCHANGED act

\* lines 252-305: the request is accepted, health_data is initialised and the
\* once-per-request fetches run
AggStart ==
    /\ agg.phase = "idle"
    /\ \E metric_types \in RequestedSets, end_date \in 0 .. MaxDates :
          LET mt == MetricTypesToFetch(metric_types)
              start_date == 1
              asked == { OnceBlocks[i] : i \in 1 .. Len(OnceBlocks) } \cap mt
          IN  /\ Cardinality(Fetches(mt)) * (end_date - start_date + 1)
                    <= MaxFetches
              /\ \E out \in Outcomes(asked, mt) :
                 LET r == RunOnce(1, Acc([m \in ALL_HEALTH_METRICS |-> <<>>],
                                         {}, <<>>),
                                  start_date, mt, out)
                 IN  agg' = [AggInit EXCEPT
                               !.phase = "dates",
                               !.metric_types = metric_types,
                               !.start_date = start_date,
                               !.end_date = end_date,
                               !.dates_to_fetch =
                                   get_dates_in_range(start_date, end_date),
                               !.health_data = r.hd,
                               !.once = out,
                               !.threw = r.threw,
                               !.calls = r.calls]
    /\ AuthUnchanged
    /\ UNCHANGED act

\* one iteration of `for current_date in dates_to_fetch`, lines 307-912
AggDate ==
    /\ agg.phase = "dates"
    /\ agg.visited < Len(agg.dates_to_fetch)
    /\ LET mt == MetricTypesToFetch(agg.metric_types)
           current_date == agg.dates_to_fetch[agg.visited + 1]
       IN  \E out \in Outcomes(Fetches(mt), mt) :
              LET r == RunBlocks(1, Acc(agg.health_data, agg.threw,
                                        agg.calls),
                                 current_date, mt, out)
              IN  agg' = [agg EXCEPT !.visited = @ + 1,
                                     !.visits = Append(@, current_date),
                                     !.health_data = r.hd,
                                     !.threw = r.threw,
                                     !.calls = r.calls,
                                     !.upstream = Append(@, out)]
    /\ AuthUnchanged
    /\ UNCHANGED act

\* lines 914-935 after the loop: clean, drop the empty categories, save the
\* result to the local file and return it; an exception of the save lands in
\* the outer except chain
AggFinish ==
    /\ agg.phase = "dates"
    /\ agg.visited = Len(agg.dates_to_fetch)
    /\ LET cleaned_health_data == clean_garmin_data(ToJson(agg.health_data))
       IN  \E saved \in BOOLEAN :
              agg' = [agg EXCEPT
                        !.phase = "done",
                        !.hard = ~saved \/ cleaned_health_data.t # "dict",
                        !.response =
                            IF saved /\ cleaned_health_data.t = "dict"
                            THEN AggSuccessResponse(
                                     FinalFilter(cleaned_health_data))
                            ELSE AggErrorResponse(
                                     [type |-> "Exception", status_code |-> 0,
                                      detail |-> "outside the blocks"])]
    /\ AuthUnchanged
    /\ UNCHANGED act

\* the handler has returned; nothing of the request outlives it
AggReturn ==
    /\ agg.phase = "done"
    /\ agg' = AggInit
    /\ AuthUnchanged
    /\ UNCHANGED act

NextAgg ==
    \/ AggReject
    \/ AggStart
    \/ AggDate
    \/ AggFinish
    \/ AggReturn

SpecAgg == Init /\ [][NextAgg]_vars

\* the handler is straight-line code in one coroutine without an await: once
\* entered, the next iteration of the loop and the code after the loop run
\* (every upstream call returns or raises)
SpecAggLive == SpecAgg /\ WF_vars(AggDate) /\ WF_vars(AggFinish)

(***************************************************************************)
(* Actions of get_activities_and_workouts                                  *)
(***************************************************************************)
\* an activity of the listing as garmin.get_activities_by_date returns it;
\* every second one has no name, no distance and no calories
RawActivity(i) ==
    IF i % 2 = 1
    THEN JDict([activityId |-> JNum(i),
                activityName |-> JStr(<<"Morning", " ", "Run">>),
                activityType |-> JDict([typeKey |-> JStr(<<"running">>)]),
                distance |-> JNum(3000 * i), duration |-> JNum(1200),
                calories |-> JNum(500), bmrCalories |-> JNum(60),
                ownerId |-> JNum(9)])
    ELSE JDict([activityId |-> JNum(i), activityName |-> JNull,
                activityType |->
                    JDict([typeKey |-> JStr(<<"trail", "_", "running">>)]),
                distance |-> JNull, calories |-> JNull,
                bmrCalories |-> JNum(60), ownerId |-> JNum(9)])

\* an item of the listing without an activityId
NoIdActivity ==
    JDict([activityName |-> JStr(<<"Walk">>), duration |-> JNum(600)])

\* str.title() of a word
Capitalized(w) ==
    CASE w = "trail" -> "Trail"
      [] w = "running" -> "Running"
      [] OTHER -> w

\* typeKey.replace('_', ' ').title()
TitleOf(s) ==
    [i \in 1 .. Len(s) |-> IF s[i] = "_" THEN " " ELSE Capitalized(s[i])]

\* lines 988-990: activityName is set from the typeKey if it is missing
WithActivityName(activity) ==
    LET typeKey == Get(Get(activity, "activityType"), "typeKey")
    IN  IF ~Truthy(Get(activity, "activityName")) /\ Truthy(typeKey)
        THEN JDict([k \in DOMAIN activity.fields \cup {"activityName"} |->
                      IF k = "activityName" THEN JStr(TitleOf(typeKey.s))
                      ELSE activity.fields[k]])
        ELSE activity

\* safe_convert(value, conversion_func) for a whole number of units
safe_convert(value, per_unit) ==
    IF value = JNull THEN JNull ELSE JNum(value.n \div per_unit)

\* convert_activities_units for one activity: the four keys are always set
convert_activity_units(activity) ==
    LET converted == [distance |-> 1000, duration |-> 60,
                      elapsedDuration |-> 60, movingDuration |-> 60]
    IN  JDict([k \in DOMAIN activity.fields \cup DOMAIN converted |->
                 IF k \in DOMAIN converted
                 THEN safe_convert(Get(activity, k), converted[k])
                 ELSE activity.fields[k]])

\* the six enrichment calls of an activity, in call order
Enrichments ==
    <<"details", "splits", "weather", "hr_in_timezones", "exercise_sets",
      "gear">>

\* what an enrichment call returns when it returns data
EnrichmentData(k, activity_id) ==
    CASE k = "details" ->
           JDict([activityId |-> JNum(activity_id), avgCadence |-> JNum(80),
                  userProfilePk |-> JNum(9)])
      [] k = "splits" -> JDict([lapDTOs |-> JList(<<JNum(0), JNull>>)])
      [] k = "weather" -> JDict([temp |-> JNum(0)])
      [] k = "hr_in_timezones" -> JList(<<JDict([zoneNumber |-> JNum(1)])>>)
      [] k = "exercise_sets" -> JDict([exerciseSets |-> JList(<<JNum(3)>>)])
      [] OTHER -> JList(<<JDict([customMakeModel |-> JStr(<<>>),
                                 gearPk |-> JNum(5)])>>)

\* the outcomes of the six calls of one activity: a call raises, returns
\* nothing (the details call only) or returns data; after a call raised no
\* later call is made
EnrichmentOutcomes ==
    { out \in [1 .. Len(Enrichments) -> {"raise", "none", "data", "skipped"}] :
        /\ \A i \in 1 .. Len(Enrichments) :
              out[i] = "skipped" <=> \E j \in 1 .. i - 1 : out[j] = "raise"
        /\ \A i \in 2 .. Len(Enrichments) : out[i] # "none" }

\* the value of the k-th call
Returned(i, activity_id, out) ==
    IF out[i] = "data" THEN EnrichmentData(Enrichments[i], activity_id)
    ELSE JNull

\* `json.dumps(clean_garmin_data(x)) if x else None`
Blob(x) == IF Truthy(x) THEN JStr(json_dumps(clean_garmin_data(x))) ELSE JNull

\* `a or b`
Or(a, b) == IF Truthy(a) THEN a ELSE b

\* lines 1000-1002
ActiveCalories(activity) ==
    LET cal == Or(Get(activity, "calories"), JNum(0))
        bmr == Or(Get(activity, "bmrCalories"), JNum(0))
    IN  JNum(IF cal.n - bmr.n > 0 THEN cal.n - bmr.n ELSE 0)

\* line 1046: what the except branch appends
UnenrichedOrNothing(activity) == JNull
Unenriched(activity) == JDict([activity |-> activity])

\* lines 1004-1046: the element appended for an activity
Enriched(activity, out) ==
    IF \E i \in 1 .. Len(Enrichments) : out[i] = "raise"
    THEN Unenriched(activity)
    ELSE LET activity_id == activity.fields["activityId"].n
             activity_details == Returned(1, activity_id, out)
             extracted_cadence ==
                 IF Truthy(activity_details) /\ activity_details.t = "dict"
                 THEN Or(Or(JNull, Get(activity_details, "avgCadence")),
                         Get(activity_details, "averageCadence"))
                 ELSE JNull
             extracted_power ==
                 IF Truthy(activity_details) /\ activity_details.t = "dict"
                 THEN Or(Or(JNull, Get(activity_details, "avgPower")),
                         Get(activity_details, "averagePower"))
                 ELSE JNull
             added == [cadence |-> extracted_cadence,
                       power |-> extracted_power,
                       active_calories |-> ActiveCalories(activity)]
             blobs == [i \in 1 .. Len(Enrichments) |->
                          Blob(Returned(i, activity_id, out))]
         IN  JDict([k \in {"activity"}
                            \cup { Enrichments[i] : i \in 1 .. Len(Enrichments) }
                      |->
                      IF k = "activity"
                      THEN JDict([f \in DOMAIN activity.fields
                                         \cup DOMAIN added |->
                                    IF f \in DOMAIN added THEN added[f]
                                    ELSE activity.fields[f]])
                      ELSE blobs[CHOOSE i \in 1 .. Len(Enrichments) :
                                    Enrichments[i] = k]])

\* a workout of the listing as garmin.get_workouts returns it
WorkoutSummary(j) ==
    JDict([workoutId |-> JNum(j), workoutName |-> JStr(<<"Intervals">>),
           description |-> JNull, ownerId |-> JNum(9)])

\* what garmin.get_workout_by_id returns for it
WorkoutDefinition(j) ==
    JDict([workoutId |-> JNum(j), workoutName |-> JStr(<<"Intervals">>),
           ownerId |-> JNum(9),
           workoutSegments |->
               JList(<<JDict([segmentOrder |-> JNum(1),
                              endConditionCompare |-> JStr(<<"gt">>),
                              endConditionValue |-> JNum(0)])>>)])

\* lines 1054-1060: the element appended for a workout; o is the outcome of
\* garmin.get_workout_by_id
DetailedWorkout(workout, o) ==
    CASE o = "raise" -> workout
      [] o = "data" -> WorkoutDefinition(workout.fields["workoutId"].n)
      [] OTHER -> JNull

\* the except chain of get_activities_and_workouts, lines 1085-1093
ActErrorResponsePartial(e) ==
    [status |-> "error", code |-> 500, detail |-> "An unexpected error occurred",
     activities |-> JList(act.detailed_activities), workouts |-> JNull]
ActErrorResponse(e) ==
    [status |-> "error", code |-> 500,
     detail |-> IF e.type = "GarthHTTPError" THEN "Garmin API error"
                ELSE IF e.type = "GarthException"
                     THEN "Failed to retrieve activities and workouts"
                ELSE "An unexpected error occurred",
     activities |-> JNull, workouts |-> JNull]

\* the return value, lines 1077-1083
ActSuccessResponse(cleaned_activities, cleaned_workouts) ==
    [status |-> "success", code |-> 200, detail |-> "",
     activities |-> cleaned_activities, workouts |-> cleaned_workouts]

\* an exception the handler's own code raises outside the inner try blocks
Unexpected(detail) == [type |-> "Exception", status_code |-> 0, detail |-> detail]

ActFails(e) ==
    act' = [act EXCEPT !.phase = "done", !.hard = TRUE,
                       !.response = ActErrorResponse(e)]

\* lines 974-984 fail: a required field is empty (the HTTPException is raised
\* inside the try block), garmin.login rejects the tokens, or
\* garmin.get_activities_by_date raises
ActReject ==
    /\ act.phase = "idle"
    /\ \E e \in ProviderErrors \cup {HTTPException(400, "Missing field")} :
          ActFails(e)
    /\ AuthUnchanged
    /\ UNCHANGED agg

\* lines 974-992: the request is accepted, the activities are listed, named
\* and converted
ActList ==
    /\ act.phase = "idle"
    /\ \E n \in 0 .. MaxActivities, last_has_id \in BOOLEAN :
          /\ n = 0 => last_has_id
          /\ LET activities == [i \in 1 .. n |->
                                  IF i = n /\ ~last_has_id THEN NoIdActivity
                                  ELSE RawActivity(i)]
             IN  act' = [act EXCEPT
                           !.phase = "activities",
                           !.activities =
                               [i \in 1 .. n |->
                                   convert_activity_units(
                                       WithActivityName(activities[i]))]]
    /\ AuthUnchanged
    /\ UNCHANGED agg

\* one iteration of `for activity in converted_activities`, lines 996-1046;
\* activity["activityId"] is read outside the inner try
ActEnrich ==
    /\ act.phase = "activities"
    /\ Len(act.detailed_activities) < Len(act.activities)
    /\ LET activity == act.activities[Len(act.detailed_activities) + 1]
       IN  IF "activityId" \notin DOMAIN activity.fields
           THEN ActFails(Unexpected("KeyError"))
           ELSE \E out \in EnrichmentOutcomes :
                   act' = [act EXCEPT
                             !.detailed_activities =
                                 Append(@, Enriched(activity, out)),
                             !.enrichment = Append(@, out)]
    /\ AuthUnchanged
    /\ UNCHANGED agg

\* line 1049 after the loop: garmin.get_workouts() returns the listing or
\* raises
ActListWorkouts ==
    /\ act.phase = "activities"
    /\ Len(act.detailed_activities) = Len(act.activities)
    /\ \/ \E e \in ProviderErrors : ActFails(e)
       \/ \E m \in 0 .. MaxWorkouts :
             /\ Len(act.activities) + m <= MaxItems
             /\ act' = [act EXCEPT !.phase = "workouts",
                                !.workouts = [j \in 1 .. m |->
                                                 WorkoutSummary(j)]]
    /\ AuthUnchanged
    /\ UNCHANGED agg

\* one iteration of `for workout in workouts`, lines 1052-1060
ActWorkout ==
    /\ act.phase = "workouts"
    /\ Len(act.detailed_workouts) < Len(act.workouts)
    /\ LET workout == act.workouts[Len(act.detailed_workouts) + 1]
       IN  \E o \in {"raise", "none", "data"} :
              act' = [act EXCEPT
                        !.detailed_workouts =
                            Append(@, DetailedWorkout(workout, o)),
                        !.definitions = Append(@, o)]
    /\ AuthUnchanged
    /\ UNCHANGED agg

\* lines 1062-1083 after the loops: clean both lists, save them to the local
\* file and return them; an exception of the save lands in the outer except
\* chain
ActFinish ==
    /\ act.phase = "workouts"
    /\ Len(act.detailed_workouts) = Len(act.workouts)
    /\ LET cleaned_activities ==
               clean_garmin_data(JList(act.detailed_activities))
           cleaned_workouts == clean_garmin_data(JList(act.detailed_workouts))
       IN  \E saved \in BOOLEAN :
              IF saved
              THEN act' = [act EXCEPT
                             !.phase = "done",
                             !.response = ActSuccessResponse(
                                 cleaned_activities, cleaned_workouts)]
              ELSE ActFails(Unexpected("save"))
    /\ AuthUnchanged
    /\ UNCHANGED agg

\* the handler has returned; nothing of the request outlives it
ActReturn ==
    /\ act.phase = "done"
    /\ act' = ActInit
    /\ AuthUnchanged
    /\ UNCHANGED agg

NextAct ==
    \/ ActReject
    \/ ActList
    \/ ActEnrich
    \/ ActListWorkouts
    \/ ActWorkout
    \/ ActFinish
    \/ ActReturn

SpecAct == Init /\ [][NextAct]_vars

\* both data handlers; neither contains an await, so a request of one runs
\* from its first line to its response before the event loop starts another
NextData ==
    \/ act.phase = "idle" /\ NextAgg
    \/ agg.phase = "idle" /\ NextAct

SpecData == Init /\ [][NextData]_vars

\* the longest date range and the most listed items (activities and workouts
\* together) of a data request that is looked at together with the
\* authentication handlers
ServiceItems == 1

\* a data request of that size that asks for at most the steps
SmallRequest ==
    /\ agg'.metric_types \subseteq {"steps"}
    /\ agg'.end_date <= ServiceItems
    /\ Len(act'.activities) + Len(act'.workouts) <= ServiceItems

\* a login has answered needs_mfa, so a client holds a handle, and no resume
\* request is open: the client has not sent its code yet
ChallengePending ==
    /\ lastResp.status = "needs_mfa"
    /\ Open(inflight) = 0

\* the whole service on its one event loop.  The data handlers contain no
\* await, so once a data request is being handled no other handler runs
\* until it has returned.  Data requests are looked at while a challenge is
\* pending.
NextService ==
    \/ agg.phase = "idle" /\ act.phase = "idle" /\ NextAuth
    \/ ChallengePending /\ NextData /\ SmallRequest

SpecService == Init /\ [][NextService]_vars

(***************************************************************************)
(* clean_garmin_data as a function of its argument                         *)
(***************************************************************************)
\* every text of at most n pieces over the alphabet
Texts(alphabet, n) == UNION { [1 .. len -> alphabet] : len \in 0 .. n }

\* the pieces plain texts are made of
Alphabet == {"q", "b", "0", "7", "x", "[", "]"}

\* the keys of the dicts: two the cleaning keeps and one it excludes
Keys == {"a", "c", "ownerId"}

\* scalars: None, the number 0, the empty text, a text json.loads rejects,
\* and texts it reads as null, as a number and (after the replace) as a str
Scalars ==
    {JNull, JNum(0), JStr(<<>>), JStr(<<"x">>), JStr(<<"null">>),
     JStr(<<"0">>), JStr(<<"q", "q", "x", "q", "q">>)}

\* every list of at most n elements of a set
Lists(of, n) == { JList(items) : items \in Texts(of, n) }

\* every dict of at most n keys with values of a set
Dicts(of, n) ==
    UNION { { JDict(fields) : fields \in [keys -> of] } :
              keys \in { ks \in SUBSET Keys : Cardinality(ks) <= n } }

\* lists and dicts of scalars
Flat == Lists(Scalars, MaxWidth) \cup Dicts(Scalars, MaxWidth)

\* a value wrapped in one more list or dict
Wrapped(v) ==
    {JList(<<v>>), JList(<<JNull, v, JNum(0)>>), JDict([a |-> v]),
     JDict([a |-> v, c |-> JNum(0)]),
     JDict([ownerId |-> v, endConditionCompare |-> JNum(0)]),
     JDict([a |-> JDict([c |-> v, ownerId |-> JNum(0)])])}

\* the text with every double quote doubled, as a CSV export writes it
RECURSIVE Doubled(_)
Doubled(s) ==
    IF s = <<>> THEN <<>>
    ELSE (IF s[1] = "q" THEN <<"q", "q">> ELSE <<s[1]>>) \o Doubled(Tail(s))

\* texts that hold a value as JSON: plainly, with doubled quotes, and as the
\* JSON of a text that holds it as JSON
Embedded(v) ==
    {JStr(json_dumps(v)), JStr(Doubled(json_dumps(v))),
     JStr(json_dumps(JStr(json_dumps(v))))}

\* the arguments clean_garmin_data is called with
CleanArguments ==
    { JStr(s) : s \in Texts(Alphabet, MaxLen) }
      \cup Scalars \cup Flat
      \cup UNION { Wrapped(v) : v \in Flat }
      \cup UNION { Embedded(v) : v \in Flat }
      \cup UNION { Wrapped(e) :
                      e \in UNION { Embedded(v) :
                                      v \in Lists(Scalars, 1)
                                              \cup Dicts(Scalars, 1) } }

InitClean ==
    /\ Handlers
    /\ \E data \in CleanArguments :
          cleaning = [NoCleaning EXCEPT !.data = data]
    /\ iteration = NoIteration

CleanUnchanged ==
    UNCHANGED <<now, MFA_STATE_STORE, uuidUsed, inflight, lastResp, lastReq,
                issued, failed, lookups, agg, act, iteration>>

\* clean_garmin_data(data)
CleanOnce ==
    /\ cleaning.calls = 0
    /\ cleaning' = [cleaning EXCEPT !.calls = 1,
                                    !.once = clean_garmin_data(cleaning.data)]
    /\ CleanUnchanged

\* clean_garmin_data(clean_garmin_data(data))
CleanTwice ==
    /\ cleaning.calls = 1
    /\ cleaning' = [cleaning EXCEPT !.calls = 2,
                                    !.twice = clean_garmin_data(cleaning.once)]
    /\ CleanUnchanged

NextClean ==
    \/ CleanOnce
    \/ CleanTwice

SpecClean == InitClean /\ [][NextClean]_vars

(***************************************************************************)
(* The stress block on a concrete response                                 *)
(***************************************************************************)
\* sum(valid_stress_values) / len(valid_stress_values) as a fraction
Fraction(num, den) == [num |-> num, den |-> den]
\* `lo <= stress_level <= hi`
Within(lo, stress_level, hi) ==
    /\ lo * stress_level.den <= stress_level.num
    /\ stress_level.num <= hi * stress_level.den

\* lines 147-174; stress_level is None or a fraction
map_garmin_stress_to_mood(stress_level) ==
    IF stress_level = JNull THEN <<JNull, JNull>>
    ELSE IF stress_level.num < 0 THEN <<JNull, JNull>>
    ELSE CASE Within(0, stress_level, 10) -> <<JNum(95), "Excited">>
           [] Within(11, stress_level, 25) -> <<JNum(85), "Happy">>
           [] Within(26, stress_level, 35) -> <<JNum(75), "Confident">>
           [] Within(36, stress_level, 50) -> <<JNum(65), "Calm">>
           [] Within(51, stress_level, 60) -> <<JNum(55), "Thoughtful">>
           [] Within(61, stress_level, 75) -> <<JNum(45), "Neutral">>
           [] Within(76, stress_level, 85) -> <<JNum(35), "Worried">>
           [] Within(86, stress_level, 95) -> <<JNum(25), "Angry">>
           [] Within(96, stress_level, 100) -> <<JNum(15), "Sad/Tired">>
           [] OTHER -> <<JNum(50), "Neutral">>

\* f"{average_stress:.0f}": the nearest integer, a tie going to the even one
Rounded(x) ==
    LET q == x.num \div x.den
        r == x.num % x.den
    IN  IF 2 * r < x.den THEN q
        ELSE IF 2 * r > x.den THEN q + 1
        ELSE IF q % 2 = 0 THEN q ELSE q + 1

\* datetime.fromtimestamp(ms / 1000, tz=timezone.utc).isoformat()
Isoformat(ms) ==
    JStr(<<"T">> \o Digits(ms \div 1000)
           \o (IF ms % 1000 = 0 THEN <<>> ELSE <<".">> \o Digits(ms % 1000)))

\* the i-th element of a sample, which is a list; a short sample raises
HasItem(entry, i) == entry.t = "list" /\ Len(entry.items) >= i
\* `entry[i] is not None and entry[i] >= 0`, which raises for a text
Comparable(entry, i) == entry.items[i].t \in {"null", "num"}
IsValidSample(entry, i) == entry.items[i] # JNull /\ entry.items[i].n >= 0

\* {"time": ..., "stress_level": entry[i]}
SamplePoint(entry, i) ==
    JDict([time |-> Isoformat(entry.items[1].n),
           stress_level |-> entry.items[i]])

\* `stress_response.get(key) or []`
SamplesOf(stress_response, key) ==
    IF Truthy(Get(stress_response, key)) THEN Get(stress_response, key).items
    ELSE <<>>

\* the loops at 546-554: the valid samples of a list, in its order
ValidPoints(list, i) ==
    LET valid == SelectSeq(list, LAMBDA entry : IsValidSample(entry, i))
    IN  [k \in 1 .. Len(valid) |-> SamplePoint(valid[k], i)]

RECURSIVE SumOf(_)
SumOf(values) ==
    IF values = <<>> THEN 0 ELSE Head(values).n + SumOf(Tail(values))

\* lines 556-570: the mood derived from the valid values
DerivedMood(valid_stress_values) ==
    IF valid_stress_values = <<>>
    THEN [value |-> JNull, notes |-> JNull, average_stress |-> JNull]
    ELSE LET average_stress == Fraction(SumOf(valid_stress_values),
                                        Len(valid_stress_values))
             mood == map_garmin_stress_to_mood(average_stress)
         IN  [value |-> mood[1],
              notes |-> IF mood[1] = JNull THEN JNull
                        ELSE JStr(<<"Derived from Garmin Stress: Average ">>
                                    \o Digits(Rounded(average_stress))
                                    \o <<" (", mood[2], ")">>),
              average_stress |-> average_stress]

\* the stress block, lines 532-578
StressBlock(hd, d, stress_response) ==
    IF stress_response = JNull THEN Raised(hd, {"stress"})
    ELSE LET stress_list == SamplesOf(stress_response, "stressValuesArray")
             bb_list == SamplesOf(stress_response, "bodyBatteryValuesArray")
         IN  IF \/ \E k \in 1 .. Len(stress_list) :
                      ~HasItem(stress_list[k], 2)
                        \/ ~Comparable(stress_list[k], 2)
                \/ \E k \in 1 .. Len(bb_list) :
                      ~HasItem(bb_list[k], 3) \/ ~Comparable(bb_list[k], 3)
             THEN Raised(hd, {"stress"})
             ELSE LET stressLevel == ValidPoints(stress_list, 2)
                      valid_stress_values ==
                          [k \in 1 .. Len(stressLevel) |->
                              Get(stressLevel[k], "stress_level")]
                      mood == DerivedMood(valid_stress_values)
                      stress_data_entry ==
                          JDict([date |-> JDate(d),
                                 stressLevel |-> JList(stressLevel),
                                 BodyBatteryLevel |->
                                     JList(ValidPoints(bb_list, 3)),
                                 raw_stress_data |-> JList(stressLevel),
                                 derived_mood_value |-> mood.value,
                                 derived_mood_notes |-> mood.notes])
                  IN  IF stressLevel # <<>> \/ mood.value # JNull
                      THEN Done(Emit(hd, "stress", stress_data_entry))
                      ELSE Done(hd)

\* the values a sample of get_stress_data can carry: None, the -1 and -2 of
\* "no data", values at the edges of the bands, one above 100 and a text
StressValues ==
    {JNull, JNum(-1), JNum(0), JNum(10), JNum(11), JNum(100), JNum(101),
     JStr(<<"x">>)}

\* [timestamp, value] samples, one every three minutes
StressSamples(values) ==
    JList([k \in 1 .. Len(values) |->
              JList(<<JNum(180000 * k), values[k]>>)])

\* [timestamp, status, level, version]
BodyBatterySamples ==
    {JNull, JList(<<JList(<<JNum(180000), JStr(<<"MEASURED">>), JNum(40),
                            JNum(1)>>)>>)}

\* what get_stress_data returns: None, or a dict with both arrays
StressResponses ==
    {JNull}
      \cup { JDict([stressValuesArray |-> StressSamples(values),
                    bodyBatteryValuesArray |-> bb]) :
               values \in UNION { [1 .. n -> StressValues] :
                                    n \in 0 .. MaxSamples },
               bb \in BodyBatterySamples }

\* the iteration is at the stress block with the response of get_stress_data
InitStress ==
    /\ Handlers
    /\ cleaning = NoCleaning
    /\ \E stress_response \in StressResponses :
          iteration = [NoIteration EXCEPT
                         !.phase = "stress",
                         !.current_date = 1,
                         !.stress_response = stress_response,
                         !.health_data = [c \in {"sleep", "stress"} |-> <<>>]]

IterationUnchanged ==
    UNCHANGED <<now, MFA_STATE_STORE, uuidUsed, inflight, lastResp, lastReq,
                issued, failed, lookups, agg, act, cleaning>>

\* lines 532-578 run on the response
RunStress ==
    /\ iteration.phase = "stress"
    /\ LET r == StressBlock(iteration.health_data, iteration.current_date,
                            iteration.stress_response)
       IN  iteration' = [iteration EXCEPT
                           !.phase = "done",
                           !.health_data = r.hd,
                           !.threw = @ \cup r.threw]
    /\ IterationUnchanged

SpecStress == InitStress /\ [][RunStress]_vars

(***************************************************************************)
(* The sleep block on a concrete response                                  *)
(***************************************************************************)
\* a point in time, in seconds, written as '%Y-%m-%dT%H:%M:%S.%f' text
GMT(seconds) == JStr(<<"T">> \o Digits(seconds))
\* datetime.strptime(text, '%Y-%m-%dT%H:%M:%S.%f'): the point in time
strptime(text) == DecimalValue(Tail(text.s))
\* the texts strptime raises on, a missing one (KeyError) included
Unparsable(text) ==
    \/ text.t # "str"
    \/ text.s = <<>>
    \/ Head(text.s) # "T"
    \/ Len(text.s) < 2
    \/ \E i \in 2 .. Len(text.s) : ~IsDigit(text.s[i])

\* `x.get(k) or 0`
OrZero(v) == IF Truthy(v) THEN v ELSE JNum(0)

\* stage_type_map.get(entry["activityLevel"], 'unknown'), lines 489-495
stage_type_map(activityLevel) ==
    CASE activityLevel = 0 -> "deep"
      [] activityLevel = 1 -> "light"
      [] activityLevel = 2 -> "rem"
      [] activityLevel = 3 -> "awake"
      [] OTHER -> "unknown"

\* the key of the total a stage adds to, lines 506-513
TotalKey(stage_type) ==
    CASE stage_type = "deep" -> "deep_sleep_seconds"
      [] stage_type = "light" -> "light_sleep_seconds"
      [] stage_type = "rem" -> "rem_sleep_seconds"
      [] stage_type = "awake" -> "awake_sleep_seconds"
      [] OTHER -> "none"

\* the events the loop at 482 looks at: those with an activityLevel
HasLevel(entry) == Get(entry, "activityLevel") # JNull

\* an event of the loop raises: a time is missing or is not in the format
RaisesInLoop(entry) ==
    HasLevel(entry)
      /\ (Unparsable(Get(entry, "startGMT")) \/ Unparsable(Get(entry, "endGMT")))

\* lines 484-502: the stage event made from an intraday event
StageEvent(entry) ==
    LET start_time_dt == strptime(Get(entry, "startGMT"))
        end_time_dt == strptime(Get(entry, "endGMT"))
    IN  JDict([stage_type |-> JStr(<<stage_type_map(Get(entry, "activityLevel").n)>>),
               start_time |-> Isoformat(start_time_dt * 1000),
               end_time |-> Isoformat(end_time_dt * 1000),
               duration_in_seconds |-> JNum(end_time_dt - start_time_dt)])

\* lines 505-513 over the stage events from the i-th on: the durations the
\* loop adds to the total kept under key
RECURSIVE Added(_, _, _)
Added(stage_events, key, i) ==
    IF i > Len(stage_events) THEN 0
    ELSE (IF TotalKey(Get(stage_events[i], "stage_type").s[1]) = key
          THEN Get(stage_events[i], "duration_in_seconds").n ELSE 0)
           + Added(stage_events, key, i + 1)

\* sorted(stage_events_raw, key=startGMT)[0] and [-1], lines 424-427, among
\* the first n events; the sort is stable
RECURSIVE EarliestOf(_, _)
EarliestOf(stage_events_raw, n) ==
    IF n = 1 THEN 1
    ELSE LET i == EarliestOf(stage_events_raw, n - 1)
         IN  IF strptime(Get(stage_events_raw[n], "startGMT"))
                  < strptime(Get(stage_events_raw[i], "startGMT"))
             THEN n ELSE i
RECURSIVE LatestOf(_, _)
LatestOf(stage_events_raw, n) ==
    IF n = 1 THEN 1
    ELSE LET i == LatestOf(stage_events_raw, n - 1)
         IN  IF strptime(Get(stage_events_raw[n], "startGMT"))
                  >= strptime(Get(stage_events_raw[i], "startGMT"))
             THEN n ELSE i
Earliest(stage_events_raw) ==
    EarliestOf(stage_events_raw, Len(stage_events_raw))
Latest(stage_events_raw) == LatestOf(stage_events_raw, Len(stage_events_raw))

\* `sleep_data_raw.get(key, default)`
GetOr(e, k, default) == IF k \in DOMAIN e.fields THEN e.fields[k] ELSE default

\* lines 416-427: where bedtime and wake time come from
FromSummary(sleep_summary) ==
    /\ Truthy(Get(sleep_summary, "sleepStartTimestampGMT"))
    /\ Truthy(Get(sleep_summary, "sleepEndTimestampGMT"))
FromStages(sleep_summary, stage_events_raw) ==
    ~FromSummary(sleep_summary) /\ Truthy(stage_events_raw)

\* lines 439-475 and 515-520: the entry before and after the loop over the
\* intraday events.  Of the fields copied unchanged from the response only
\* average_spo2_value, which the SpO2 block reads, is kept.
SleepEntryData(d, sleep_summary, bedtime_dt, wake_time_dt, stage_events, needs_stage_sum) ==
    LET duration_in_seconds ==
            IF Get(sleep_summary, "sleepTimeSeconds") = JNull
            THEN JNum(wake_time_dt - bedtime_dt)
            ELSE Get(sleep_summary, "sleepTimeSeconds")
        deep_sleep == OrZero(Get(sleep_summary, "deepSleepSeconds"))
        light_sleep == OrZero(Get(sleep_summary, "lightSleepSeconds"))
        rem_sleep == OrZero(Get(sleep_summary, "remSleepSeconds"))
        awake_sleep ==
            IF Truthy(Get(sleep_summary, "awakeSleepSeconds"))
            THEN Get(sleep_summary, "awakeSleepSeconds")
            ELSE OrZero(Get(sleep_summary, "awakeDuringSleepSeconds"))
        total(from_summary, key) ==
            IF needs_stage_sum
            THEN from_summary.n + Added(stage_events, key, 1)
            ELSE from_summary.n
        deep == total(deep_sleep, "deep_sleep_seconds")
        light == total(light_sleep, "light_sleep_seconds")
        rem == total(rem_sleep, "rem_sleep_seconds")
    IN  JDict([entry_date |-> JDate(d),
               bedtime |-> Isoformat(bedtime_dt * 1000),
               wake_time |-> Isoformat(wake_time_dt * 1000),
               duration_in_seconds |-> duration_in_seconds,
               time_asleep_in_seconds |-> JNum(deep + light + rem),
               source |-> JStr(<<"garmin">>),
               deep_sleep_seconds |-> JNum(deep),
               light_sleep_seconds |-> JNum(light),
               rem_sleep_seconds |-> JNum(rem),
               awake_sleep_seconds |->
                   JNum(total(awake_sleep, "awake_sleep_seconds")),
               average_spo2_value |-> Get(sleep_summary, "averageSpO2Value"),
               stage_events |-> JList(stage_events)])

\* line 479
AlwaysSum(deep_sleep, light_sleep, rem_sleep) == TRUE
NeedsStageSum(deep_sleep, light_sleep, rem_sleep) ==
    deep_sleep.n = 0 /\ light_sleep.n = 0 /\ rem_sleep.n = 0

\* line 523
AnyDuration(sleep_entry_data) == TRUE
PositiveDuration(sleep_entry_data) ==
    /\ Get(sleep_entry_data, "duration_in_seconds") # JNull
    /\ Get(sleep_entry_data, "duration_in_seconds").n > 0

\* the sleep block, lines 405-529
SleepBlock(hd, d, sleep_data_raw) ==
    IF ~Truthy(sleep_data_raw) THEN Done(hd)
    ELSE IF GetOr(sleep_data_raw, "dailySleepDTO", JDict(<<>>)) = JNull
    THEN Raised(hd, {"sleep"})
    ELSE
    LET sleep_summary == GetOr(sleep_data_raw, "dailySleepDTO", JDict(<<>>))
        stage_events_raw == GetOr(sleep_data_raw, "sleepLevels", JList(<<>>))
        sleep_levels_intraday == Get(sleep_data_raw, "sleepLevels")
        with_level ==
            IF Truthy(sleep_levels_intraday)
            THEN SelectSeq(sleep_levels_intraday.items, HasLevel)
            ELSE <<>>
    IN  IF /\ FromStages(sleep_summary, stage_events_raw)
           /\ \/ \E k \in 1 .. Len(stage_events_raw.items) :
                    Unparsable(Get(stage_events_raw.items[k], "startGMT"))
              \/ Unparsable(Get(stage_events_raw.items[
                                   Latest(stage_events_raw.items)], "endGMT"))
        THEN Raised(hd, {"sleep"})
        ELSE IF ~FromSummary(sleep_summary) /\ ~Truthy(stage_events_raw)
        THEN Done(hd)
        ELSE IF \E k \in 1 .. Len(with_level) : RaisesInLoop(with_level[k])
        THEN Raised(hd, {"sleep"})
        ELSE
        LET bedtime_dt ==
                IF FromSummary(sleep_summary)
                THEN Get(sleep_summary, "sleepStartTimestampGMT").n \div 1000
                ELSE strptime(Get(stage_events_raw.items[
                                     Earliest(stage_events_raw.items)],
                                  "startGMT"))
            wake_time_dt ==
                IF FromSummary(sleep_summary)
                THEN Get(sleep_summary, "sleepEndTimestampGMT").n \div 1000
                ELSE strptime(Get(stage_events_raw.items[
                                     Latest(stage_events_raw.items)],
                                  "endGMT"))
            needs_stage_sum ==
                NeedsStageSum(OrZero(Get(sleep_summary, "deepSleepSeconds")),
                              OrZero(Get(sleep_summary, "lightSleepSeconds")),
                              OrZero(Get(sleep_summary, "remSleepSeconds")))
            stage_events ==
                [k \in 1 .. Len(with_level) |-> StageEvent(with_level[k])]
            sleep_entry_data ==
                SleepEntryData(d, sleep_summary, bedtime_dt, wake_time_dt,
                               stage_events, needs_stage_sum)
        IN  IF PositiveDuration(sleep_entry_data)
            THEN Done(Emit(hd, "sleep", sleep_entry_data))
            ELSE Done(hd)

\* the activityLevel values of intraday events: none, the four of the table
\* and one above them
ActivityLevels == {JNull, JNum(0), JNum(1), JNum(2), JNum(3), JNum(4)}

\* how long an event of a level lasts, in seconds
LevelSeconds(level) ==
    CASE level = JNull -> 60
      [] level = JNum(0) -> 1800
      [] level = JNum(1) -> 3600
      [] level = JNum(2) -> 900
      [] level = JNum(3) -> 300
      [] OTHER -> 120

\* the night starts at 22:00:00
NightStart == 79200

\* when the k-th of consecutive events starts
RECURSIVE StartOf(_, _)
StartOf(levels, k) ==
    IF k = 1 THEN NightStart
    ELSE StartOf(levels, k - 1) + LevelSeconds(levels[k - 1])

\* sleepLevels: consecutive events of the given levels, listed oldest first
\* or newest first
SleepLevels(levels, newest_first) ==
    LET n == Len(levels)
        event(k) ==
            JDict([startGMT |-> GMT(StartOf(levels, k)),
                   endGMT |-> GMT(StartOf(levels, k) + LevelSeconds(levels[k])),
                   activityLevel |-> levels[k]])
    IN  JList([k \in 1 .. n |->
                  IF newest_first THEN event(n + 1 - k) ELSE event(k)])

\* the stage seconds a dailySleepDTO reports: none; only time awake; all
\* four; light sleep only
SummaryStages ==
    { [deep |-> JNull, light |-> JNull, rem |-> JNull, awake |-> JNull],
      [deep |-> JNum(0), light |-> JNum(0), rem |-> JNum(0),
       awake |-> JNum(600)],
      [deep |-> JNum(5400), light |-> JNum(14400), rem |-> JNum(3600),
       awake |-> JNum(600)],
      [deep |-> JNum(0), light |-> JNum(7200), rem |-> JNull,
       awake |-> JNum(0)] }

\* dailySleepDTO
DailySleepDTO(timed, sleepTimeSeconds, stages) ==
    JDict([sleepStartTimestampGMT |->
               IF timed THEN JNum(NightStart * 1000) ELSE JNull,
           sleepEndTimestampGMT |->
               IF timed THEN JNum((NightStart + 28800) * 1000) ELSE JNull,
           sleepTimeSeconds |-> sleepTimeSeconds,
           deepSleepSeconds |-> stages.deep,
           lightSleepSeconds |-> stages.light,
           remSleepSeconds |-> stages.rem,
           awakeSleepSeconds |-> stages.awake,
           averageSpO2Value |-> SleepSpO2])

\* the summaries paired with the ways of listing the events: a summary with
\* timestamps reports a sleep time, a zero one or none; one without
\* timestamps reports none, and its events come in either order
SummaryKinds ==
    { k \in [timed : BOOLEAN, newest_first : BOOLEAN,
             sleepTimeSeconds : {JNull, JNum(0), JNum(28800)}] :
        IF k.timed THEN ~k.newest_first ELSE k.sleepTimeSeconds = JNull }

\* what get_sleep_data returns: None; an empty dict; a dict whose
\* dailySleepDTO is None; events of which one has no startGMT; and
\* summaries with events
SleepResponses ==
    {JNull, JDict(<<>>), JDict([dailySleepDTO |-> JNull]),
     JDict([dailySleepDTO |-> DailySleepDTO(TRUE, JNum(28800),
                                            CHOOSE s \in SummaryStages :
                                               s.deep = JNull),
            sleepLevels |-> JList(<<JDict([endGMT |-> GMT(NightStart + 60),
                                          activityLevel |-> JNum(0)])>>)])}
      \cup { JDict([dailySleepDTO |->
                        DailySleepDTO(k.timed, k.sleepTimeSeconds, stages),
                    sleepLevels |-> SleepLevels(levels, k.newest_first)]) :
               k \in SummaryKinds,
               stages \in SummaryStages,
               levels \in UNION { [1 .. n -> ActivityLevels] :
                                    n \in 0 .. MaxEvents } }

\* the iteration is at the sleep block with the response of get_sleep_data;
\* the stress block, which comes next, will get one valid sample
InitSleep ==
    /\ Handlers
    /\ cleaning = NoCleaning
    /\ \E sleep_data_raw \in SleepResponses :
          iteration = [NoIteration EXCEPT
                         !.phase = "sleep",
                         !.current_date = 1,
                         !.sleep_data_raw = sleep_data_raw,
                         !.stress_response =
                             JDict([stressValuesArray |->
                                        StressSamples(<<JNum(10)>>)]),
                         !.health_data = [c \in {"sleep", "stress"} |-> <<>>]]

\* lines 405-529 run on the response; the iteration goes on to the next block
RunSleep ==
    /\ iteration.phase = "sleep"
    /\ LET r == SleepBlock(iteration.health_data, iteration.current_date,
                           iteration.sleep_data_raw)
       IN  iteration' = [iteration EXCEPT
                           !.phase = "stress",
                           !.health_data = r.hd,
                           !.threw = @ \cup r.threw]
    /\ IterationUnchanged

NextSleep ==
    \/ RunSleep
    \/ RunStress

SpecSleep == InitSleep /\ [][NextSleep]_vars

(***************************************************************************)
(* Properties of the authentication handlers                               *)
(***************************************************************************)
\* the response of a resume whose handle pop() did not find
InvalidHandleResponse ==
    ResumeErrorResponse(HTTPException(400, "Invalid or expired mfa_token"))

\* the last request was a resume with all three fields present
LastWasResume == lastReq.op = "resume" /\ ~lastReq.missing

\* the resume was turned away at the lookup and never reached the provider
TurnedAway == lastResp = InvalidHandleResponse /\ ~lastReq.exchanged

\* no entry of the store is older than the TTL at time t
NoneExpired(store, t) ==
    \A h \in DOMAIN store : t - store[h].ts <= MFA_TTL_SECONDS

\* C1: a challenge is read once.  For every handle at most one resume gets
\* past the lookup, and a resume with a handle that an earlier resume has
\* consumed is turned away with the invalid-or-expired response without any
\* provider exchange.
C1_ReadOnce ==
    /\ \A h \in Handles : lookups[h] <= 1
    /\ (LastWasResume /\ lastReq.preConsumed) => TurnedAway

\* a second resume with a consumed handle has been answered
C1_Witness ==
    /\ LastWasResume
    /\ lastReq.preConsumed
    /\ lookups[lastReq.handle] = 1

\* C2 (as claimed): a resume with a never-consumed handle whose challenge is
\* older than the TTL is turned away like a resume with an unknown handle,
\* whether or not a login ran in between.
C2_ExpiredResumeTurnedAway ==
    (LastWasResume /\ lastReq.preExpired) => TurnedAway

\* C3: a resume whose provider exchange fails discards the challenge.  The
\* handle is gone from the store, the response carries no tokens, and a later
\* resume with that handle, correct code included, is turned away.
C3_FailedExchangeDiscards ==
    /\ \A h \in failed : h \notin DOMAIN MFA_STATE_STORE
    /\ (LastWasResume /\ lastReq.exchanged /\ lastResp.status = "error")
          => (~lastResp.tokens /\ lastReq.handle \notin DOMAIN MFA_STATE_STORE)
    /\ (LastWasResume /\ lastReq.preFailed) => TurnedAway

\* a resume with the correct code followed a failed exchange of its handle
C3_Witness ==
    /\ LastWasResume
    /\ lastReq.preFailed
    /\ lastReq.codeOk

\* C4: an MFA-required login returns a handle that was no key of the store
\* and returns that handle only, not the provider's challenge state; a resume
\* that reaches the provider hands it the state stored under its handle.
C4_HandleFreshStateRecovered ==
    /\ (lastReq.op = "login" /\ lastResp.status = "needs_mfa")
          => /\ ~lastReq.overwrote
             /\ lastResp.client_state = lastReq.handle
             /\ lastResp.client_state \in Handles
             /\ lastResp.client_state \notin ChallengeStates
    /\ (lastReq.op = "resume" /\ lastReq.exchanged)
          => /\ lastReq.handle \in DOMAIN issued
             /\ lastReq.usedState = issued[lastReq.handle]

\* a resume reached the provider while another challenge, holding a different
\* state, was stored as well
C4_Witness ==
    /\ lastReq.op = "resume"
    /\ lastReq.exchanged
    /\ \E h \in DOMAIN issued : issued[h] # lastReq.usedState

\* C5: after a login that ends with an MFA requirement no entry of the store
\* is older than the TTL, and every entry that was at most TTL old is still
\* there unchanged.
C5_SweepOnMfaLogin ==
    [][LoginNeedsMfa =>
         /\ NoneExpired(MFA_STATE_STORE', now')
         /\ \A h \in DOMAIN MFA_STATE_STORE :
               now - MFA_STATE_STORE[h].ts <= MFA_TTL_SECONDS
                  => /\ h \in DOMAIN MFA_STATE_STORE'
                     /\ MFA_STATE_STORE'[h] = MFA_STATE_STORE[h]]_vars

\* an MFA login has just swept an entry that no resume had consumed
C5_Witness ==
    /\ lastReq.op = "login"
    /\ lastResp.status = "needs_mfa"
    /\ \E h \in uuidUsed : h \notin DOMAIN MFA_STATE_STORE /\ lookups[h] = 0

\* C6 (as claimed): every login attempt sweeps, so after any login returns
\* no entry of the store is older than the TTL.
C6_EveryLoginSweeps ==
    [][garmin_login => NoneExpired(MFA_STATE_STORE', now')]_vars

\* C6 (amended): a login that ends with an MFA requirement sweeps, so after
\* it returns no entry is older than the TTL; a login that succeeds directly
\* or fails at the provider leaves the store as it was.
C6_OnlyMfaLoginSweeps ==
    [][garmin_login =>
         IF lastResp'.status = "needs_mfa"
         THEN NoneExpired(MFA_STATE_STORE', now')
         ELSE MFA_STATE_STORE' = MFA_STATE_STORE]_vars

\* a login without MFA requirement has returned and an expired entry is
\* still stored
C6_Witness ==
    /\ lastReq.op = "login"
    /\ lastResp.status # "needs_mfa"
    /\ ~NoneExpired(MFA_STATE_STORE, now)

\* C7: the store is race-free.  Of the resumes open at once with one handle
\* at most one obtains the challenge; an entry leaves the store only when a
\* resume pops it or when it is expired; a handle once used is never stored
\* again; and an MFA login always ends with its own entry stored.
C7_StoreRaceFree ==
    [][/\ \A h \in Handles :
             (inflight[h] >= 2 /\ lookups'[h] > lookups[h])
                => (h \notin DOMAIN MFA_STATE_STORE' /\ lookups'[h] = 1)
       /\ \A h \in DOMAIN MFA_STATE_STORE :
             h \notin DOMAIN MFA_STATE_STORE'
                => \/ lookups'[h] > lookups[h]
                   \/ now - MFA_STATE_STORE[h].ts > MFA_TTL_SECONDS
       /\ \A h \in DOMAIN MFA_STATE_STORE' :
             h \notin DOMAIN MFA_STATE_STORE => h \notin uuidUsed
       /\ LoginNeedsMfa
             => /\ lastResp'.status = "needs_mfa"
                /\ lastResp'.client_state \in DOMAIN MFA_STATE_STORE']_vars

\* one of two resumes open with the same handle has obtained the challenge
\* while the other is still suspended
C7_Witness ==
    /\ lastReq.op = "resume"
    /\ lastReq.exchanged
    /\ inflight[lastReq.handle] >= 1

\* C8 (as claimed): a resume with a missing field or with a handle that is
\* not in the store is answered with a client error of its own (400), not
\* with the generic unexpected-failure response.
C8_HandleErrorsAreClientErrors ==
    (lastReq.op = "resume" /\ (lastReq.missing \/ ~lastReq.preInStore))
       => /\ lastResp.code = 400
          /\ lastResp.prefix # "An unexpected error occurred"

\* C29: a login that returns needs_mfa leaves the entry of the handle it
\* returns in the store, with the challenge state it stored and the time of
\* the login: the sweep of the same login does not remove it.  As long as
\* that login is the last request completed, the entry stays, so a resume
\* issued next with the handle finds its challenge.
C29_StoredEntrySurvivesSweep ==
    [][/\ uuidUsed' # uuidUsed
          => \E mfa_id \in uuidUsed' \ uuidUsed :
                /\ lastResp' = NeedsMfaResponse(mfa_id)
                /\ mfa_id \in DOMAIN MFA_STATE_STORE'
                /\ MFA_STATE_STORE'[mfa_id]
                     = [state |-> issued'[mfa_id], ts |-> now]
       /\ lastResp'.status = "needs_mfa"
          => /\ lastResp'.client_state \in DOMAIN MFA_STATE_STORE'
             /\ MFA_STATE_STORE'[lastResp'.client_state].state
                  = issued'[lastResp'.client_state]
      ]_vars

\* the second login swept the expired entry of the first and kept its own
C29_Witness ==
    /\ lastResp = NeedsMfaResponse(2)
    /\ uuidUsed = {1, 2}
    /\ lookups[1] = 0
    /\ DOMAIN MFA_STATE_STORE = {2}

\* a login stored a challenge in this step
NeedsMfaLoginStep == uuidUsed' # uuidUsed

\* a resume completed in this step, and it got to the lookup with a handle
\* that was in the store
KnownResumeStep ==
    /\ Open(inflight') < Open(inflight)
    /\ ~lastReq'.missing
    /\ lastReq'.preInStore

\* C30: the store changes only in a login that returns needs_mfa and in a
\* resume that has its three fields and a known handle.  A login that
\* succeeds directly or fails at the provider, a resume with a missing field,
\* a resume with an unknown handle and every step of an aggregation or
\* activities request leave it as it was; a resume with a known handle
\* removes the entry of that handle and no other.
C30_StoreChangesOnlyByChallenge ==
    [][/\ ~(NeedsMfaLoginStep \/ KnownResumeStep)
          => UNCHANGED MFA_STATE_STORE
       /\ (agg' # agg \/ act' # act) => UNCHANGED MFA_STATE_STORE
       /\ KnownResumeStep
          => /\ lastReq'.handle \in DOMAIN MFA_STATE_STORE
             /\ MFA_STATE_STORE' =
                   [ k \in DOMAIN MFA_STATE_STORE \ {lastReq'.handle} |->
                        MFA_STATE_STORE[k] ]
      ]_vars

\* the challenge of handle 1 was resumed and removed, a later login stored
\* the challenge of handle 2, and an aggregation request has since run to its
\* response with that challenge in the store
C30_Witness ==
    /\ lookups[1] > 0
    /\ DOMAIN MFA_STATE_STORE = {2}
    /\ lastResp = NeedsMfaResponse(2)
    /\ agg.phase = "done"
    /\ agg.response.status = "success"
    /\ agg.visited > 0

(***************************************************************************)
(* Properties of get_health_and_wellness                                   *)
(***************************************************************************)
\* the request got past validation and login and has been answered; hard
\* tells whether saving the result failed
AggAnswered == agg.phase = "done" /\ agg.metric_types # {}

AggSucceeded == AggAnswered /\ agg.response.status = "success"

\* the key an entry of category c is dated by
DateKey(c) == IF c = "sleep" THEN "entry_date" ELSE "date"

\* the entries of category c dated d in the data of a response
EntriesAt(data, c, d) ==
    IF c \in DOMAIN data.fields
    THEN SelectSeq(data.fields[c].items,
                   LAMBDA e : Get(e, DateKey(c)) = JDate(d))
    ELSE <<>>

\* health_data after every date of dates from the j-th on, given the outcome
\* of every upstream call
RECURSIVE RunDates(_, _, _, _, _)
RunDates(j, acc, dates, mt, upstream) ==
    IF j > Len(dates) THEN acc
    ELSE RunDates(j + 1, RunBlocks(1, acc, dates[j], mt, upstream[j]),
                  dates, mt, upstream)

\* the data of the response to the answered request had its upstream calls
\* gone as once and upstream say
DataGiven(once, upstream) ==
    LET mt == MetricTypesToFetch(agg.metric_types)
        r0 == RunOnce(1, Acc([m \in ALL_HEALTH_METRICS |-> <<>>], {}, <<>>),
                      agg.start_date, mt, once)
        r  == RunDates(1, r0, agg.dates_to_fetch, mt, upstream)
    IN  FinalFilter(clean_garmin_data(ToJson(r.hd)))

\* the upstream call that raised in block b on date d: the training readiness
\* call when the training status call of the shared block went through
FailedCall(b, d) ==
    IF /\ b = "training_load_acute_load"
       /\ agg.upstream[d - agg.start_date + 1][b] \notin {"raise", "bad"}
    THEN "acute_load_readiness"
    ELSE b

\* the outcome a failed call is compared with: usable data (for the two
\* categories health_data has no key for, no data)
Repaired(f) ==
    IF f \in {"menstrual_calendar_data", "pregnancy_summary"} THEN "none"
    ELSE "data"

\* the data of the response had the call that raised in block b on date d
\* returned usable data instead, everything else as it was
DataWithout(b, d) ==
    IF b \in { OnceBlocks[i] : i \in 1 .. Len(OnceBlocks) }
    THEN DataGiven([agg.once EXCEPT ![b] = Repaired(b)], agg.upstream)
    ELSE LET j == d - agg.start_date + 1
             f == FailedCall(b, d)
         IN  DataGiven(agg.once,
                       [agg.upstream EXCEPT ![j] =
                           [@ EXCEPT ![f] = Repaired(f)]])

\* the dates the response can hold entries for
AggDates ==
    {agg.start_date}
      \cup { agg.dates_to_fetch[j] : j \in 1 .. Len(agg.dates_to_fetch) }

\* C9 (as claimed): per-unit isolation.  Whatever upstream calls fail, a
\* request that got past validation and login and whose result was saved is
\* answered with success, and for every category c whose fetch or processing
\* raised on date d the data has no entry for (c, d) while every other
\* requested (category, date) has exactly the entries it would have had, had
\* that call returned usable data.  Two couplings the design names are left
\* out: body_battery has a second source when the daily summary fails, and
\* spo2 may read the sleep entry of the same date.
C9_PerUnitIsolation ==
    (AggAnswered /\ ~agg.hard)
       => /\ agg.response.status = "success"
          /\ \A t \in agg.threw :
                LET b == t[1]
                    c == t[2]
                    d == t[3]
                    sameBlock == { x[2] : x \in { y \in agg.threw :
                                              y[1] = b /\ y[3] = d } }
                IN  /\ (b = "daily_summary" /\ c = "body_battery")
                          \/ EntriesAt(agg.response.data, c, d) = <<>>
                    /\ \A c2 \in MetricTypesToFetch(agg.metric_types)
                                    \cap ALL_HEALTH_METRICS :
                          \A d2 \in AggDates :
                             \/ (d2 = d /\ c2 \in sameBlock)
                             \/ (d2 = d /\ c2 = "spo2" /\ b = "sleep")
                             \/ EntriesAt(agg.response.data, c2, d2)
                                  = EntriesAt(DataWithout(b, d), c2, d2)

\* C10: in every successful aggregation response each category key of data
\* maps to a non-empty sequence, and a category whose sequence is empty
\* after cleaning is not a key of data.
C10_OutputCategoriesNonEmpty ==
    AggSucceeded
       => LET data == agg.response.data
              cleaned == clean_garmin_data(ToJson(agg.health_data))
          IN  /\ data.t = "dict"
              /\ \A k \in DOMAIN data.fields :
                    /\ data.fields[k].t = "list"
                    /\ Len(data.fields[k].items) > 0
              /\ \A c \in DOMAIN cleaned.fields :
                    cleaned.fields[c].items = <<>>
                       => c \notin DOMAIN data.fields

\* a successful response that holds one category and has dropped another
\* whose entries were all cleaned away
C10_Witness ==
    /\ AggSucceeded
    /\ agg.health_data["body_composition"] # <<>>
    /\ "body_composition" \notin DOMAIN agg.response.data.fields
    /\ "steps" \in DOMAIN agg.response.data.fields

\* C11: every category key of a successful response is one of the requested
\* categories and of the known set; with only steps requested over a range
\* of n dates the data has no key other than steps and at most n steps
\* entries, each dated in the range and at most one per date.
C11_OnlyRequestedKeys ==
    AggSucceeded
       => LET data == agg.response.data
              requested == IF agg.metric_types = {} THEN ALL_HEALTH_METRICS
                           ELSE agg.metric_types
              n == Len(agg.dates_to_fetch)
          IN  /\ DOMAIN data.fields \subseteq requested \cap ALL_HEALTH_METRICS
              /\ agg.metric_types = {"steps"}
                    => /\ DOMAIN data.fields \subseteq {"steps"}
                       /\ "steps" \in DOMAIN data.fields
                             => /\ Len(data.fields["steps"].items) <= n
                                /\ \A i \in 1 .. Len(data.fields["steps"].items) :
                                      \E j \in 1 .. n :
                                         Get(data.fields["steps"].items[i], "date")
                                           = JDate(agg.dates_to_fetch[j])
                       /\ \A j \in 1 .. n :
                             Len(EntriesAt(data, "steps", agg.dates_to_fetch[j]))
                               <= 1

\* only steps was requested over two dates and both dates have an entry
C11_Witness ==
    /\ AggSucceeded
    /\ agg.metric_types = {"steps"}
    /\ Len(agg.dates_to_fetch) = 2
    /\ DOMAIN agg.response.data.fields = {"steps"}
    /\ Len(agg.response.data.fields["steps"].items) = 2

\* the dates visited so far are the first dates of [start_date, end_date],
\* one day apart and ascending
VisitsInOrder ==
    /\ \A i \in 1 .. Len(agg.visits) :
          /\ agg.visits[i] = agg.start_date + i - 1
          /\ agg.visits[i] <= agg.end_date
    /\ agg.start_date > agg.end_date => agg.visits = <<>>

\* a response to an accepted request exists only when every date of the range
\* has been visited
ResponseAfterLastDate ==
    /\ agg.phase = "dates" => agg.response = NoAggResponse
    /\ AggAnswered
          => /\ agg.start_date <= agg.end_date
                   => Len(agg.visits) = agg.end_date - agg.start_date + 1
             /\ \A d \in agg.start_date .. agg.end_date :
                   Cardinality({ i \in 1 .. Len(agg.visits) :
                                   agg.visits[i] = d }) = 1

\* every entry of a category of the response is dated, and the dates of a
\* category's entries never decrease
EntriesAscending ==
    AggSucceeded
       => LET data == agg.response.data
          IN  \A c \in DOMAIN data.fields :
                 LET items == data.fields[c].items
                 IN  /\ \A i \in 1 .. Len(items) :
                           \E d \in AggDates :
                              Get(items[i], DateKey(c)) = JDate(d)
                     /\ \A i, j \in 1 .. Len(items) :
                           \A d1, d2 \in AggDates :
                              /\ i < j
                              /\ Get(items[i], DateKey(c)) = JDate(d1)
                              /\ Get(items[j], DateKey(c)) = JDate(d2)
                              => d1 <= d2

OnceSeries == {"lactate_threshold", "race_predictions"}

\* the positions in the call order at which block b was entered
CallIndexes(b) == { i \in 1 .. Len(agg.calls) : agg.calls[i][1] = b }

\* the positions in the call order of the per-day blocks
PerDayIndexes ==
    { i \in 1 .. Len(agg.calls) :
        \E k \in 1 .. Len(Blocks) : agg.calls[i][1] = Blocks[k] }

\* C13: lactate threshold and race predictions are each fetched at most once
\* per request (exactly once when requested, whatever happened to the other),
\* before the first per-day fetch; each series has at most one entry, dated
\* with the start date; and when either fails every per-day block of every
\* date of the range is still entered (the body battery fallback, which is
\* entered only for a date without an entry, aside).
C13_OncePerRequest ==
    /\ \A b \in OnceSeries :
          /\ Cardinality(CallIndexes(b)) <= 1
          /\ (agg.phase = "dates" \/ AggAnswered)
                => (b \in MetricTypesToFetch(agg.metric_types)
                      <=> Cardinality(CallIndexes(b)) = 1)
          /\ \A i \in CallIndexes(b) :
                /\ agg.calls[i][2] = agg.start_date
                /\ \A j \in PerDayIndexes : i < j
          /\ agg.phase = "dates"
                => /\ Len(agg.health_data[b]) <= 1
                   /\ \A i \in 1 .. Len(agg.health_data[b]) :
                         Get(agg.health_data[b][i], "date")
                           = JDate(agg.start_date)
          /\ AggSucceeded /\ b \in DOMAIN agg.response.data.fields
                => /\ Len(agg.response.data.fields[b].items) = 1
                   /\ Get(agg.response.data.fields[b].items[1], "date")
                         = JDate(agg.start_date)
    /\ AggAnswered
          => \A d \in agg.start_date .. agg.end_date :
                \A k \in 1 .. Len(Blocks) :
                   (/\ BlockMetrics(Blocks[k])
                          \cap MetricTypesToFetch(agg.metric_types) # {}
                    /\ Blocks[k] # "body_battery_fallback")
                     => \E i \in 1 .. Len(agg.calls) :
                           agg.calls[i] = <<Blocks[k], d>>

\* the lactate threshold fetch raised; the race predictions entry and the
\* floors entries of both days are in the response
C13_Witness ==
    /\ AggSucceeded
    /\ <<"lactate_threshold", "lactate_threshold", agg.start_date>>
          \in agg.threw
    /\ Len(EntriesAt(agg.response.data, "race_predictions", agg.start_date))
          = 1
    /\ Len(EntriesAt(agg.response.data, "floors", 1)) = 1
    /\ Len(EntriesAt(agg.response.data, "floors", 2)) = 1
    /\ "lactate_threshold" \notin DOMAIN agg.response.data.fields

\* the body_battery entries health_data holds for date d, by source: the
\* fallback source never has a value at wake time
BodyBatteryAt(d, from_summary) ==
    SelectSeq(agg.health_data["body_battery"], LAMBDA e :
        /\ Get(e, "date") = JDate(d)
        /\ (Get(e, "body_battery_at_wake") # JNull) = from_summary)

\* how often the fallback fetch was issued for date d
FallbackFetches(d) ==
    Cardinality({ i \in 1 .. Len(agg.calls) :
                    agg.calls[i] = <<"body_battery_fallback", d>> })

\* C28: body battery has one source per date.  For every date visited, the
\* fallback fetch is issued, once, if and only if body_battery is requested
\* and the daily summary path emitted no body_battery entry for the date
\* (its fetch failed, its processing raised before body battery, or the
\* summary carried no body battery value); no date has body_battery entries
\* of both sources.
C28_BodyBatteryOneSource ==
    agg.phase \in {"dates", "done"} /\ agg.metric_types # {}
       => \A j \in 1 .. Len(agg.visits) :
             LET d == agg.visits[j]
                 requested ==
                     "body_battery" \in MetricTypesToFetch(agg.metric_types)
                 summary_emitted ==
                     requested /\ agg.upstream[j]["daily_summary"] = "data"
             IN  /\ FallbackFetches(d) <= 1
                 /\ FallbackFetches(d) = 1
                       <=> (requested /\ ~summary_emitted)
                 /\ summary_emitted <=> BodyBatteryAt(d, TRUE) # <<>>
                 /\ BodyBatteryAt(d, TRUE) = <<>>
                       \/ BodyBatteryAt(d, FALSE) = <<>>
                 /\ Len(BodyBatteryAt(d, TRUE)) <= 1

\* the summary processing raised on the distance before it reached body
\* battery; the fallback fetch was issued for the date and gave its entry
C28_Witness ==
    /\ agg.phase = "dates"
    /\ agg.visits = <<1>>
    /\ agg.metric_types = {"total_distance", "body_battery"}
    /\ agg.upstream[1]["daily_summary"] = "total_distance"
    /\ FallbackFetches(1) = 1
    /\ Len(BodyBatteryAt(1, FALSE)) = 1
    /\ BodyBatteryAt(1, TRUE) = <<>>

\* the entries of category c dated d in a health_data
HeldAt(hd, c, d) ==
    SelectSeq(hd[c], LAMBDA e : Get(e, DateKey(c)) = JDate(d))

\* health_data after the iteration of date d of a request for category c
\* alone, the upstream calls answering as out says
AloneAt(c, d, out) ==
    RunBlocks(1, Acc([k \in ALL_HEALTH_METRICS |-> <<>>], {}, <<>>),
              d, {c}, out).hd

\* the categories the per-day blocks serve
PerDayCategories ==
    UNION { BlockMetrics(Blocks[k]) : k \in 1 .. Len(Blocks) }
      \cap ALL_HEALTH_METRICS

\* C27 (as claimed): fetcher independence.  For every date visited and every
\* requested per-day category other than spo2, the entries health_data holds
\* for the category and date are those a request for that category alone
\* would have given with the same upstream responses, whichever other
\* categories were requested and whether or not their processing failed.
C27_FetcherIndependence ==
    agg.phase \in {"dates", "done"} /\ agg.metric_types # {}
       => \A j \in 1 .. Len(agg.visits) :
             \A c \in (MetricTypesToFetch(agg.metric_types)
                         \cap PerDayCategories) \ {"spo2"} :
                HeldAt(agg.health_data, c, agg.visits[j])
                  = HeldAt(AloneAt(c, agg.visits[j], agg.upstream[j]),
                           c, agg.visits[j])

(***************************************************************************)
(* Properties of get_activities_and_workouts and of both data handlers     *)
(***************************************************************************)
\* the activities request has been answered
ActAnswered == act.phase = "done"

ActSucceeded == ActAnswered /\ act.response.status = "success"

\* every step of the activities request outside the inner try blocks went
\* through: the listing, the id of every activity, the workout listing
ActCompleted ==
    /\ Len(act.detailed_activities) = Len(act.activities)
    /\ Len(act.detailed_workouts) = Len(act.workouts)
    /\ \A i \in 1 .. Len(act.activities) :
          "activityId" \in DOMAIN act.activities[i].fields

\* C14: a hard failure fails the whole request.  A request of either data
\* handler that is answered after an empty required field, a rejected
\* session or an exception outside the per-unit try blocks gets an error
\* with a message and no data, activities or workouts; no response exists
\* before the handler is done, and a success has passed every such step.
C14_HardFailureNoPartialData ==
    /\ agg.phase = "done" /\ agg.hard
          => /\ agg.response.status = "error"
             /\ agg.response.code >= 400
             /\ agg.response.detail # ""
             /\ agg.response.data = JNull
    /\ agg.phase = "done" /\ ~agg.hard => agg.response.status = "success"
    /\ agg.phase = "dates" => agg.response = NoAggResponse
    /\ ActAnswered /\ act.hard
          => /\ act.response.status = "error"
             /\ act.response.code >= 400
             /\ act.response.detail # ""
             /\ act.response.activities = JNull
             /\ act.response.workouts = JNull
    /\ ActAnswered /\ ~act.hard => ActSucceeded /\ ActCompleted
    /\ act.phase \in {"activities", "workouts"}
          => act.response = NoActResponse

\* the workout listing failed after two activities had been enriched
C14_Witness ==
    /\ ActAnswered
    /\ act.hard
    /\ Len(act.detailed_activities) = 2
    /\ \A i \in 1 .. 2 :
          DOMAIN act.detailed_activities[i].fields # {"activity"}
    /\ act.workouts = <<>>
    /\ act.response.status = "error"

\* the fields of a listed activity that hold a value and are not excluded
CoreFields(activity) ==
    { f \in DOMAIN activity.fields :
        activity.fields[f] # JNull /\ f \notin ExcludedKeys }

\* C15: enrichment failure never discards an activity.  Whatever enrichment
\* calls fail, the activities of a successful response have exactly one
\* element per listed activity, in listing order, and the element's
\* "activity" holds every core field of the listed activity with its value.
C15_ActivityNeverDiscarded ==
    ActSucceeded
       => LET items == act.response.activities.items
          IN  /\ Len(items) = Len(act.activities)
              /\ \A i \in 1 .. Len(items) :
                    /\ "activity" \in DOMAIN items[i].fields
                    /\ \A f \in CoreFields(act.activities[i]) :
                          /\ f \in DOMAIN items[i].fields["activity"].fields
                          /\ items[i].fields["activity"].fields[f]
                                = act.activities[i].fields[f]

\* two activities were listed; the first call of the first one and the
\* third call of the second one raised
C15_Witness ==
    /\ ActSucceeded
    /\ Len(act.activities) = 2
    /\ act.enrichment[1][1] = "raise"
    /\ act.enrichment[2][3] = "raise"
    /\ Len(act.response.activities.items) = 2
    /\ Get(Get(act.response.activities.items[2], "activity"), "activityId")
          = JNum(2)

\* C16 (as claimed): per-enrichment isolation.  If exactly one of the six
\* enrichment calls of an activity raised, every other enrichment whose call
\* returned data is present in that activity's element of the response.
C16_PerEnrichmentIsolation ==
    ActSucceeded
       => \A i \in 1 .. Len(act.enrichment) :
             Cardinality({ j \in 1 .. Len(Enrichments) :
                             act.enrichment[i][j] = "raise" }) = 1
               => \A k \in 1 .. Len(Enrichments) :
                     act.enrichment[i][k] = "data"
                       => Enrichments[k]
                            \in DOMAIN act.response.activities.items[i].fields

\* C17 (as claimed): each listed workout yields exactly one element of the
\* response's workouts, in listing order: the cleaned summary of the listing
\* when its detail fetch raised, the cleaned full definition otherwise.
C17_EachWorkoutOneElement ==
    ActSucceeded
       => LET items == act.response.workouts.items
          IN  /\ Len(items) = Len(act.workouts)
              /\ \A j \in 1 .. Len(items) :
                    /\ Get(items[j], "workoutId") = JNum(j)
                    /\ act.definitions[j] = "raise"
                          => "workoutSegments" \notin DOMAIN items[j].fields
                    /\ act.definitions[j] # "raise"
                          => "workoutSegments" \in DOMAIN items[j].fields

(***************************************************************************)
(* Properties of clean_garmin_data                                         *)
(***************************************************************************)
\* C18: clean is idempotent.  For every argument built from dicts, lists,
\* None, numbers and texts, texts that hold JSON included, cleaning the
\* cleaned value gives the cleaned value.
C18_CleanIdempotent ==
    cleaning.calls = 2 => cleaning.twice = cleaning.once

\* a dict that holds a zero and, as a text with doubled quotes, the JSON of
\* a dict whose only value is the text null: the first call parsed both
\* texts and dropped the key
C18_Witness ==
    /\ cleaning.calls = 2
    /\ cleaning.data
          = JDict([a |-> JStr(Doubled(json_dumps(
                             JDict([a |-> JStr(<<"null">>)])))),
                   c |-> JNum(0)])
    /\ cleaning.once = JDict([c |-> JNum(0)])
    /\ cleaning.twice = cleaning.once

\* the places of a value that hold the number 0: the keys on the way down,
\* none of them excluded, and "#" for an element of a list (whose position
\* changes when an element before it is dropped)
RECURSIVE ZeroPaths(_)
ZeroPaths(v) ==
    CASE v.t = "num" -> IF v.n = 0 THEN {<<>>} ELSE {}
      [] v.t = "dict" ->
           UNION { { <<k>> \o p : p \in ZeroPaths(v.fields[k]) } :
                     k \in DOMAIN v.fields
                           \ (ExcludedKeys \cup EndConditionCompareKeys) }
      [] v.t = "list" ->
           UNION { { <<"#">> \o p : p \in ZeroPaths(v.items[i]) } :
                     i \in 1 .. Len(v.items) }
      [] OTHER -> {}

RECURSIVE Sum(_)
Sum(counts) == IF counts = <<>> THEN 0 ELSE Head(counts) + Sum(Tail(counts))

\* how many zeros a value holds at a place
RECURSIVE ZeroCount(_, _)
ZeroCount(v, p) ==
    IF p = <<>> THEN (IF v.t = "num" /\ v.n = 0 THEN 1 ELSE 0)
    ELSE CASE v.t = "dict" ->
                IF Head(p) \in DOMAIN v.fields
                THEN ZeroCount(v.fields[Head(p)], Tail(p))
                ELSE 0
           [] v.t = "list" ->
                IF Head(p) = "#"
                THEN Sum([i \in 1 .. Len(v.items) |->
                             ZeroCount(v.items[i], Tail(p))])
                ELSE 0
           [] OTHER -> 0

\* C19: clean never drops a zero.  Every dict entry and list element of the
\* argument whose value is the number 0, at any depth and under keys that
\* are not excluded, is in the cleaned value at the same place with value 0.
C19_ZeroNeverDropped ==
    cleaning.calls >= 1
       => \A p \in ZeroPaths(cleaning.data) :
             ZeroCount(cleaning.once, p) >= ZeroCount(cleaning.data, p)

\* a zero in a list two dicts down stays, next to a null and under a dict
\* whose excluded key is dropped
C19_Witness ==
    /\ cleaning.calls >= 1
    /\ cleaning.data
          = JDict([a |-> JDict([c |-> JList(<<JNull, JNum(0)>>),
                                ownerId |-> JNum(0)])])
    /\ cleaning.once = JDict([a |-> JDict([c |-> JList(<<JNum(0)>>)])])

\* a list that has nothing left after cleaning: it is empty or each of its
\* elements cleans to None
BecomesEmpty(v) ==
    /\ v.t = "list"
    /\ \A i \in 1 .. Len(v.items) : clean_garmin_data(v.items[i]) = JNull

\* C20 (as claimed): clean drops a sequence that becomes empty.  For a list
\* that is empty or all of whose elements clean to None clean returns None,
\* and a dict key that holds such a list is not in the cleaned dict.
C20_EmptySequenceDropped ==
    cleaning.calls >= 1
       => /\ BecomesEmpty(cleaning.data) => cleaning.once = JNull
          /\ cleaning.data.t = "dict"
                => \A k \in DOMAIN cleaning.data.fields :
                      BecomesEmpty(cleaning.data.fields[k])
                        => \/ cleaning.once = JNull
                           \/ k \notin DOMAIN cleaning.once.fields

\* C20 (amended): clean keeps a sequence that becomes empty.  For a list
\* that is empty or all of whose elements clean to None clean returns the
\* empty list, and a dict key that is not excluded and holds such a list is
\* in the cleaned dict with the empty list as its value.
C20_EmptySequenceKept ==
    cleaning.calls >= 1
       => /\ BecomesEmpty(cleaning.data) => cleaning.once = JList(<<>>)
          /\ cleaning.data.t = "dict"
                => \A k \in DOMAIN cleaning.data.fields
                             \ (ExcludedKeys \cup EndConditionCompareKeys) :
                      BecomesEmpty(cleaning.data.fields[k])
                        => /\ cleaning.once.t = "dict"
                           /\ k \in DOMAIN cleaning.once.fields
                           /\ cleaning.once.fields[k] = JList(<<>>)

\* a dict whose only key holds a list of a None and a text that reads as
\* null: the cleaned dict holds the key with an empty list
C20_Witness ==
    /\ cleaning.calls >= 1
    /\ cleaning.data = JDict([a |-> JList(<<JNull, JStr(<<"null">>)>>)])
    /\ cleaning.once = JDict([a |-> JList(<<>>)])

(***************************************************************************)
(* Properties of the stress block                                          *)
(***************************************************************************)
\* the stress block has run and has appended its entry
StressEmitted ==
    iteration.phase = "done" /\ Len(iteration.health_data["stress"]) = 1

\* the stress values of an entry's samples, in the entry's order
EmittedValues(entry) ==
    [k \in 1 .. Len(Get(entry, "stressLevel").items) |->
        Get(Get(entry, "stressLevel").items[k], "stress_level")]

\* the arithmetic mean of an entry's samples
MeanOf(entry) ==
    Fraction(SumOf(EmittedValues(entry)), Len(EmittedValues(entry)))

\* the label inside "... Average <n> (<label>)"
LabelOf(notes) == notes.s[Len(notes.s) - 1]

\* the (score, label) pairs of the nine bands
BandMoods ==
    {<<95, "Excited">>, <<85, "Happy">>, <<75, "Confident">>, <<65, "Calm">>,
     <<55, "Thoughtful">>, <<45, "Neutral">>, <<35, "Worried">>,
     <<25, "Angry">>, <<15, "Sad/Tired">>}

\* every sample of the entry is in [0,100]
SamplesInRange(entry) ==
    \A k \in 1 .. Len(EmittedValues(entry)) :
       EmittedValues(entry)[k].n \in 0 .. 100

\* C21 (as claimed): the mood of an emitted stress entry is the table's.  The
\* mean of samples in [0,100], whole or not, gets the score and label of one
\* of the nine bands, so a score in [15,95]; the default 50/Neutral is given
\* only to a mean above 100; and a response without a valid sample gets no
\* mood.
C21_StressMoodTable ==
    StressEmitted /\ SamplesInRange(iteration.health_data["stress"][1])
       => LET entry == iteration.health_data["stress"][1]
              value == Get(entry, "derived_mood_value")
              notes == Get(entry, "derived_mood_notes")
          IN  IF EmittedValues(entry) = <<>> THEN value = JNull
              ELSE /\ value # JNull
                   /\ Within(0, MeanOf(entry), 100)
                         => /\ <<value.n, LabelOf(notes)>> \in BandMoods
                            /\ value.n \in 15 .. 95
                   /\ <<value.n, LabelOf(notes)>> = <<50, "Neutral">>
                         => MeanOf(entry).num > 100 * MeanOf(entry).den

\* the values of the upstream samples that lie in [0,100], in upstream order
UpstreamInRange ==
    LET list == SamplesOf(iteration.stress_response, "stressValuesArray")
        kept == SelectSeq(list, LAMBDA entry :
                    /\ entry.items[2].t = "num"
                    /\ entry.items[2].n \in 0 .. 100)
    IN  [k \in 1 .. Len(kept) |-> kept[k].items[2]]

\* C22 (as claimed): every sample of an emitted stress entry has a value in
\* [0,100]; the samples are the upstream samples of that range in upstream
\* order; the mood is derived from the mean of exactly the emitted samples;
\* and an entry is emitted only with at least one valid sample or a mood.
C22_StressSamplesValid ==
    StressEmitted
       => LET entry == iteration.health_data["stress"][1]
          IN  /\ SamplesInRange(entry)
              /\ EmittedValues(entry) = UpstreamInRange
              /\ Get(entry, "raw_stress_data") = Get(entry, "stressLevel")
              /\ EmittedValues(entry) # <<>>
                    => Get(entry, "derived_mood_value")
                         = map_garmin_stress_to_mood(MeanOf(entry))[1]
              /\ \/ EmittedValues(entry) # <<>>
                 \/ Get(entry, "derived_mood_value") # JNull

(***************************************************************************)
(* Properties of the sleep block                                           *)
(***************************************************************************)
\* the sleep block has run
SleepRan ==
    iteration.phase \in {"stress", "done"} /\ iteration.sleep_data_raw # JNull

\* the sleep block has run and has appended its entry
SleepEmitted == SleepRan /\ Len(iteration.health_data["sleep"]) = 1

\* the summary and the intraday events of the response
SummaryOf(raw) ==
    IF "dailySleepDTO" \in DOMAIN raw.fields THEN raw.fields["dailySleepDTO"]
    ELSE JDict(<<>>)
EventsOf(raw) ==
    IF "sleepLevels" \in DOMAIN raw.fields THEN raw.fields["sleepLevels"].items
    ELSE <<>>

\* the summary has both timestamps
SummaryTimed(raw) ==
    /\ raw # JNull
    /\ SummaryOf(raw) # JNull
    /\ Get(SummaryOf(raw), "sleepStartTimestampGMT") \notin {JNull, JNum(0)}
    /\ Get(SummaryOf(raw), "sleepEndTimestampGMT") \notin {JNull, JNum(0)}

\* the second an event starts and ends at
StartSecond(event) == DecimalValue(Tail(Get(event, "startGMT").s))
EndSecond(event) == DecimalValue(Tail(Get(event, "endGMT").s))

\* C23: a sleep entry is emitted for a date only if bedtime and wake time
\* were both resolved, from the summary timestamps or else from the first
\* and the last intraday event, and its duration is greater than 0; there
\* is never more than one; and whether or not the sleep entry exists, and
\* also when the sleep block raised, the next category of the date is
\* processed and its entry emitted.
C23_SleepEntryNeedsTimesAndDuration ==
    /\ iteration.phase \in {"stress", "done"}
          => Len(iteration.health_data["sleep"]) <= 1
    /\ iteration.phase = "done"
          => Len(iteration.health_data["stress"]) = 1
    /\ SleepEmitted
          => LET raw == iteration.sleep_data_raw
                 entry == iteration.health_data["sleep"][1]
                 events == EventsOf(raw)
             IN  /\ Get(entry, "duration_in_seconds") # JNull
                 /\ Get(entry, "duration_in_seconds").n > 0
                 /\ SummaryTimed(raw) \/ events # <<>>
                 /\ SummaryTimed(raw)
                       => /\ Get(entry, "bedtime")
                               = Isoformat(Get(SummaryOf(raw),
                                               "sleepStartTimestampGMT").n)
                          /\ Get(entry, "wake_time")
                               = Isoformat(Get(SummaryOf(raw),
                                               "sleepEndTimestampGMT").n)
                 /\ ~SummaryTimed(raw)
                       => \E first, last \in 1 .. Len(events) :
                             /\ \A k \in 1 .. Len(events) :
                                   /\ StartSecond(events[first])
                                        <= StartSecond(events[k])
                                   /\ StartSecond(events[k])
                                        <= StartSecond(events[last])
                             /\ Get(entry, "bedtime")
                                  = Isoformat(1000 * StartSecond(events[first]))
                             /\ Get(entry, "wake_time")
                                  = Isoformat(1000 * EndSecond(events[last]))

\* a summary with both timestamps reports a sleep time of 0: no sleep entry
\* is emitted, and the stress entry of the date is
C23_Witness ==
    /\ iteration.phase = "done"
    /\ SummaryTimed(iteration.sleep_data_raw)
    /\ Get(SummaryOf(iteration.sleep_data_raw), "sleepTimeSeconds") = JNum(0)
    /\ iteration.health_data["sleep"] = <<>>
    /\ Len(iteration.health_data["stress"]) = 1

\* the four stage totals of an entry and the summary field each starts from
StageTotals ==
    [deep |-> "deep_sleep_seconds", light |-> "light_sleep_seconds",
     rem |-> "rem_sleep_seconds", awake |-> "awake_sleep_seconds"]
SummaryField ==
    [deep |-> "deepSleepSeconds", light |-> "lightSleepSeconds",
     rem |-> "remSleepSeconds", awake |-> "awakeSleepSeconds"]

\* what the summary reports for a stage, nothing counting as 0
SummarySeconds(raw, stage) ==
    IF Get(SummaryOf(raw), SummaryField[stage]) = JNull THEN 0
    ELSE Get(SummaryOf(raw), SummaryField[stage]).n

\* the durations of the entry's stage events of a stage, from the i-th on
RECURSIVE StageSeconds(_, _, _)
StageSeconds(entry, stage, i) ==
    IF i > Len(Get(entry, "stage_events").items) THEN 0
    ELSE LET e == Get(entry, "stage_events").items[i]
         IN  (IF Get(e, "stage_type") = JStr(<<stage>>)
              THEN Get(e, "duration_in_seconds").n ELSE 0)
               + StageSeconds(entry, stage, i + 1)

\* the summary reports no deep, light or rem sleep
SummaryWithoutStages(raw) ==
    /\ SummarySeconds(raw, "deep") = 0
    /\ SummarySeconds(raw, "light") = 0
    /\ SummarySeconds(raw, "rem") = 0

\* C24 (as claimed): stage totals are never double-counted.  Each of the
\* four totals of an emitted sleep entry is the summary's value for the
\* stage or the sum of the stage's event durations, never the sum of the
\* two; and when the summary's deep, light and rem are all zero, all four
\* totals, awake included, are the sums of the events alone.
C24_StageTotalsNotDoubleCounted ==
    SleepEmitted
       => LET raw == iteration.sleep_data_raw
              entry == iteration.health_data["sleep"][1]
          IN  \A stage \in DOMAIN StageTotals :
                 LET total == Get(entry, StageTotals[stage]).n
                     summed == StageSeconds(entry, stage, 1)
                 IN  /\ total \in {SummarySeconds(raw, stage), summed}
                     /\ SummaryWithoutStages(raw) => total = summed

\* the durations of the upstream events of an activity level, from the i-th
RECURSIVE LevelSum(_, _, _)
LevelSum(events, level, i) ==
    IF i > Len(events) THEN 0
    ELSE (IF Get(events[i], "activityLevel") = JNum(level)
          THEN EndSecond(events[i]) - StartSecond(events[i]) ELSE 0)
           + LevelSum(events, level, i + 1)

\* C25: in every emitted sleep entry the time asleep is deep + light + rem
\* of the entry; when the summary reports deep = light = rem = 0 these three
\* are the sums of the durations of the events of level 0, 1 and 2; when one
\* of the three is not zero they are the summary's values.
C25_TimeAsleepIsStageSum ==
    SleepEmitted
       => LET raw == iteration.sleep_data_raw
              entry == iteration.health_data["sleep"][1]
              deep == Get(entry, "deep_sleep_seconds").n
              light == Get(entry, "light_sleep_seconds").n
              rem == Get(entry, "rem_sleep_seconds").n
          IN  /\ Get(entry, "time_asleep_in_seconds") = JNum(deep + light + rem)
              /\ IF SummaryWithoutStages(raw)
                 THEN /\ deep = LevelSum(EventsOf(raw), 0, 1)
                      /\ light = LevelSum(EventsOf(raw), 1, 1)
                      /\ rem = LevelSum(EventsOf(raw), 2, 1)
                 ELSE /\ deep = SummarySeconds(raw, "deep")
                      /\ light = SummarySeconds(raw, "light")
                      /\ rem = SummarySeconds(raw, "rem")

\* the summary reports zeros and the events sum to 1800, 3600 and 900: the
\* entry reports those and 6300 seconds asleep
C25_Witness ==
    /\ SleepEmitted
    /\ Get(SummaryOf(iteration.sleep_data_raw), "deepSleepSeconds") = JNum(0)
    /\ Get(SummaryOf(iteration.sleep_data_raw), "lightSleepSeconds") = JNum(0)
    /\ Get(SummaryOf(iteration.sleep_data_raw), "remSleepSeconds") = JNum(0)
    /\ LET entry == iteration.health_data["sleep"][1]
       IN  /\ Get(entry, "deep_sleep_seconds") = JNum(1800)
           /\ Get(entry, "light_sleep_seconds") = JNum(3600)
           /\ Get(entry, "rem_sleep_seconds") = JNum(900)
           /\ Get(entry, "time_asleep_in_seconds") = JNum(6300)

\* the stage the table gives an activity level
StageOfLevel(level) ==
    CASE level = 0 -> "deep"
      [] level = 1 -> "light"
      [] level = 2 -> "rem"
      [] level >= 3 -> "awake"
      [] OTHER -> "unknown"

\* C26 (as claimed): the events with an activity level become the stage
\* events of the entry, in order, typed 0 -> deep, 1 -> light, 2 -> rem and 3
\* or more -> awake, and 'unknown' only for another level; when the totals
\* are summed from the events, an 'unknown' event adds to none of them.
C26_StageClassification ==
    SleepEmitted
       => LET raw == iteration.sleep_data_raw
              entry == iteration.health_data["sleep"][1]
              levelled == SelectSeq(EventsOf(raw), LAMBDA e :
                              Get(e, "activityLevel") # JNull)
              stage_events == Get(entry, "stage_events").items
          IN  /\ Len(stage_events) = Len(levelled)
              /\ \A k \in 1 .. Len(levelled) :
                    Get(stage_events[k], "stage_type")
                      = JStr(<<StageOfLevel(Get(levelled[k],
                                                "activityLevel").n)>>)
              /\ SummaryWithoutStages(raw)
                    => Get(entry, "deep_sleep_seconds").n
                         + Get(entry, "light_sleep_seconds").n
                         + Get(entry, "rem_sleep_seconds").n
                         + Get(entry, "awake_sleep_seconds").n
                       = SummarySeconds(raw, "awake")
                           + StageSeconds(entry, "deep", 1)
                           + StageSeconds(entry, "light", 1)
                           + StageSeconds(entry, "rem", 1)
                           + StageSeconds(entry, "awake", 1)

====
